---- MODULE Spec2Model ----
(***************************************************************************)
(* Byte-level model of the fourteenkilobytes compiler: flatten -> measure  *)
(* -> paginate -> assemble/emit (compiler.ts, flatten.ts, paginate.ts,     *)
(* measure.ts) and of the CLI's manifest handling (manifest.ts, cli).      *)
(*                                                                         *)
(* Strings of HTML are represented by their exact UTF-8 byte length plus   *)
(* an identity (which source block / which post they were rendered from);  *)
(* slugs and file names are real strings.                                  *)
(***************************************************************************)
EXTENDS Integers, Sequences, FiniteSets, TLC

VARIABLES
    pc,                 \* position of the running command / compile() call
    input,              \* CompilerInput of the compile() call in progress
    flat,               \* FlattenResult: contentBlocks, breakdown, page
    estimatedPages,     \* paginate(): estimate used by the next packing pass
    estimateKind,       \* "finite" | "Infinity" (Math.ceil(x / 0))
    iteration,          \* paginate(): loop counter
    previousPageCount,  \* paginate(): page count of the previous pass
    paginationResult,   \* PaginationResult returned by paginate()
    pass,               \* paginate(): the packing pass that ran last
    navLinks,           \* generatePaginationNav(): links pushed, mod MaxNavLinks+1
    result,             \* CompilerResult of the last finished compile()
    firstResult,        \* result of the first of two compile() runs
    now,                \* the clock read by new Date()
    manifest,           \* BuildManifest.entries as stored in manifest.json
    command,            \* CLI command being executed
    exitCode,           \* exit code of the last finished CLI command
    ops,                \* CLI commands started so far
    procs,              \* concurrent CLI runs: position and local values of each
    files               \* writeFile() calls on the output directory, in order

vars == <<pc, input, flat, estimatedPages, estimateKind, iteration,
          previousPageCount, paginationResult, pass, navLinks, result, firstResult,
          now, manifest, command, exitCode, ops, procs, files>>

(***************************************************************************)
(* Program constants                                                       *)
(***************************************************************************)
SIZE_LIMIT == 14336
MAX_PAGINATION_ITERATIONS == 10
EstimateMargin == 100
DEFAULT_BLOGLIST_LIMIT == 20

\* measureBytes of the fixed fragments
DoctypeBytes == 15
HtmlOpenBytes == 16
BodyOpenBytes == 6
MainOpenBytes == 6
MainCloseBytes == 7
BodyCloseBytes == 7
HtmlCloseBytes == 7
HeadOpenBytes == 7
CharsetMetaBytes == 22
ViewportMetaBytes == 67
HeadCloseBytes == 8
HeadPrefixBytes == 98
HeadSuffixBytes == 8
NewlineBytes == 1
BLOGLIST_WRAPPER_OPEN == 19
BLOGLIST_WRAPPER_CLOSE == 6
BLOGLIST_WRAPPER_BYTES == BLOGLIST_WRAPPER_OPEN + BLOGLIST_WRAPPER_CLOSE
NavOpenBytes == 25
NavCloseBytes == 7
SpanMarkupBytes == 13
AnchorMarkupBytes == 15
EmptyStateBytes == 38
EndOfListBytes == 49
StyleMarkupBytes == 15
MAX_TITLE_LENGTH == 200
MAX_META_DESCRIPTION_LENGTH == 160
MAX_META_AUTHOR_LENGTH == 100

(***************************************************************************)
(* Bounds of the model                                                     *)
(***************************************************************************)
MaxContent == 2      \* content blocks per input
MaxOps == 3          \* CLI commands per behaviour
MaxNavLinks == 3     \* modulus - 1 of the link count of an unbounded navigation loop
MaxText == 2         \* characters per user-supplied text

(***************************************************************************)
(* Helpers                                                                 *)
(***************************************************************************)
Max(a, b) == IF a >= b THEN a ELSE b

\* Op(v), with v evaluated once before Op is applied to it
Apply(Op(_), v) == CHOOSE r \in {Op(x) : x \in {v}} : TRUE

Min(a, b) == IF a <= b THEN a ELSE b

\* sum of a sequence of numbers
SumSeq(s) ==
    Apply(LAMBDA v : LET F[i \in 0..Len(v)] == IF i = 0 THEN 0 ELSE F[i - 1] + v[i]
                     IN  F[Len(v)],
          s)

\* concatenation of a sequence of sequences
Flat(ss) ==
    Apply(LAMBDA v : LET F[i \in 0..Len(v)] ==
                             IF i = 0 THEN <<>> ELSE F[i - 1] \o v[i]
                     IN  F[Len(v)],
          ss)

SeqsUpTo(S, n) == UNION {[1..k -> S] : k \in 1..n}

\* number of decimal digits of `${i}`
Digits(i) == IF i < 10 THEN 1 ELSE IF i < 100 THEN 2 ELSE IF i < 1000 THEN 3 ELSE 4

\* measureBytes(str): the slugs are ASCII, one byte per character
measureBytes(str) == Len(str)

(***************************************************************************)
(* Inputs.  Every rendered fragment is given by its byte length; 0 stands  *)
(* for a module that is null / absent (a present module is never empty:    *)
(* its markup alone has a positive length).                                *)
(***************************************************************************)
LeafSizes == {100, 165, 264, 265, 340}

Leaf(n, c) == [type |-> "paragraph", bytes |-> n, crlf |-> c,
               limitKind |-> "undefined", limit |-> 0, archiveLink |-> 0]

Bloglist(k, l, a) == [type |-> "bloglist", bytes |-> 0, crlf |-> 0,
                      limitKind |-> k, limit |-> l, archiveLink |-> a]

\* content blocks an input may hold (validateContent: at least one block;
\* validateBloglistBlock: limit is null, absent or an integer >= 1)
ContentBlocks ==
    {Leaf(n, 0) : n \in LeafSizes} \cup {Leaf(100, 1)} \cup
    {Bloglist("null", 0, 0), Bloglist("number", 1, 60), Bloglist("undefined", 0, 0),
     Bloglist("number", 2, 0), Bloglist("null", 0, 60)}

Post(s, t, at, n) == [status |-> s, pageType |-> t, publishedAt |-> at, bytes |-> n]

\* post lists handed to the compiler (unsorted, with drafts and pages)
PostLists ==
    { <<>>,
      << Post("published", "post", 1, 80), Post("draft", "post", 4, 90),
         Post("published", "post", 3, 85), Post("published", "page", 5, 70),
         Post("published", "post", 2, 80) >> }

\* module presets: title / favicon / meta / navigation / footer / icons
Modules ==
    { [titleHtml |-> 16, faviconHtml |-> 0, metaHtml |-> 0, navigation |-> 0,
       footer |-> 0, iconBytes |-> 0],
      [titleHtml |-> 16, faviconHtml |-> 37, metaHtml |-> 60, navigation |-> 50,
       footer |-> 23, iconBytes |-> 0],
      [titleHtml |-> 16, faviconHtml |-> 0, metaHtml |-> 0, navigation |-> 0,
       footer |-> 0, iconBytes |-> 120] }

\* byte length of `<style>${cssRules}</style>`, 0 when there are no rules
CssSizes == {0, 13631, 13805, 14041}

Slugs == {"a", "a-2"}

\* measureBytes of `<title>` and `</title>`
TitleMarkupBytes == 15

\* input.title by its length, before and after trim(), for a title that
\* renders to `<title>...</title>` of titleHtml bytes
TitleOf(titleHtml) ==
    [length |-> titleHtml - TitleMarkupBytes,
     trimmedLength |-> titleHtml - TitleMarkupBytes]

\* one navigation item as the validator sees it
NavItem(textTrimmedLength, hrefMatches) ==
    [textTrimmedLength |-> textTrimmedLength, hrefMatches |-> hrefMatches]

\* css.rules as the validator sees it: its length and its braces, each with
\* its offset
CssRules(length, braces) == [length |-> length, braces |-> braces]

Brace(char, offset) == [char |-> char, offset |-> offset]

\* meta as the validator sees it: the lengths of description and author
\* (0 for an absent field)
Meta(descriptionLength, authorLength) ==
    [descriptionLength |-> descriptionLength, authorLength |-> authorLength]

\* a module of n rendered bytes is null when n = 0; the fields read by
\* validateInput only are those of a well-formed module
MakeInput(slug, m, css, content, posts, allow) ==
    [slug |-> slug, title |-> TitleOf(m.titleHtml), titleHtml |-> m.titleHtml,
     faviconHtml |-> m.faviconHtml,
     metaHtml |-> m.metaHtml, cssHtml |-> css, navigation |-> m.navigation,
     footer |-> m.footer, iconBytes |-> m.iconBytes, content |-> content,
     posts |-> posts, allowPagination |-> allow,
     navItems |-> <<NavItem(1, TRUE)>>, footerContentIsString |-> TRUE,
     cssRules |-> CssRules(Max(0, css - StyleMarkupBytes), <<>>),
     meta |-> Meta(24, 0),
     icons |-> IF m.iconBytes > 0 THEN <<[whitelisted |-> TRUE]>> ELSE <<>>]

\* inputs that validateInput accepts
ValidInputs ==
    { MakeInput(slug, m, css, content, posts, allow) :
        slug \in Slugs, m \in Modules, css \in CssSizes,
        content \in SeqsUpTo(ContentBlocks, MaxContent),
        posts \in PostLists, allow \in BOOLEAN }

\* a block of a type the compiler does not know
UnknownBlock == [type |-> "video", bytes |-> 100, crlf |-> 0,
                 limitKind |-> "undefined", limit |-> 0, archiveLink |-> 0]

\* an input with every module present, each field either well-formed or
\* broken in one of the ways its validator tests for, in every combination
CheckedInputs ==
    LET base == MakeInput("a", [titleHtml |-> 16, faviconHtml |-> 37,
                                metaHtml |-> 60, navigation |-> 50,
                                footer |-> 23, iconBytes |-> 120],
                          13805, <<Leaf(100, 0)>>, <<>>, TRUE)
    IN  { [base EXCEPT !.slug = slug, !.title = title, !.content = content,
                       !.navItems = nav, !.footerContentIsString = footer,
                       !.cssRules = css, !.meta = meta, !.icons = icons] :
            slug \in {"a", "A b", ""},
            title \in {[length |-> 1, trimmedLength |-> 1],
                       [length |-> 2, trimmedLength |-> 0],
                       [length |-> 201, trimmedLength |-> 201]},
            content \in {<<Leaf(100, 0)>>, <<>>, <<Leaf(100, 0), UnknownBlock>>,
                         <<Bloglist("number", 0, 0)>>},
            nav \in {<<NavItem(1, TRUE)>>, <<NavItem(1, TRUE), NavItem(0, TRUE)>>,
                     <<NavItem(1, FALSE)>>},
            footer \in BOOLEAN,
            css \in {CssRules(13790, <<Brace("{", 1), Brace("}", 2)>>),
                     CssRules(13790, <<Brace("{", 1), Brace("}", 2),
                                       Brace("}", 7)>>),
                     CssRules(13790, <<Brace("{", 1)>>)},
            meta \in {Meta(24, 0), Meta(161, 0), Meta(24, 101)},
            icons \in {<<[whitelisted |-> TRUE]>>,
                       <<[whitelisted |-> TRUE], [whitelisted |-> FALSE]>>} }

\* post lists whose items need more than two packing passes: every further
\* page makes the navigation longer, which pushes an item to the next page
ConvergencePosts ==
    { << Post("published", "post", 4, 100), Post("published", "post", 3, 120),
         Post("published", "post", 2, 110), Post("published", "post", 1, 85) >>,
      << Post("published", "post", 5, 80), Post("published", "post", 4, 120),
         Post("published", "post", 3, 100), Post("published", "post", 2, 120),
         Post("published", "post", 1, 120) >> }

\* inputs whose page count settles only after several passes
ConvergenceInputs ==
    { MakeInput("a", [titleHtml |-> 16, faviconHtml |-> 0, metaHtml |-> 0,
                      navigation |-> 0, footer |-> 0, iconBytes |-> 0],
                13805, <<Bloglist("null", 0, 0)>>, posts, TRUE) :
        posts \in ConvergencePosts }

Inputs == ValidInputs \cup CheckedInputs \cup ConvergenceInputs

(***************************************************************************)
(* validate.ts                                                             *)
(***************************************************************************)
Valid == [valid |-> TRUE, error |-> [code |-> "none"]]

Invalid(err) == [valid |-> FALSE, error |-> err]

\* the characters SLUG_PATTERN /^[a-z0-9-]+$/ admits
SlugChars ==
    {"a", "b", "c", "d", "e", "f", "g", "h", "i", "j", "k", "l", "m", "n", "o",
     "p", "q", "r", "s", "t", "u", "v", "w", "x", "y", "z", "0", "1", "2", "3",
     "4", "5", "6", "7", "8", "9", "-"}

validateSlug(slug) ==
    IF Len(slug) >= 1 /\ \A i \in 1..Len(slug) : SubSeq(slug, i, i) \in SlugChars
    THEN Valid
    ELSE Invalid([code |-> "INVALID_SLUG", slug |-> slug])

validateTitle(title) ==
    IF title.trimmedLength = 0
    THEN Invalid([code |-> "EMPTY_TITLE"])
    ELSE IF title.length > MAX_TITLE_LENGTH
    THEN Invalid([code |-> "TITLE_TOO_LONG", length |-> title.length,
                  maxLength |-> MAX_TITLE_LENGTH])
    ELSE Valid

allowedBlockTypes ==
    {"heading", "paragraph", "bloglist", "author", "unordered-list",
     "ordered-list", "blockquote", "codeblock", "divider", "spacer", "section",
     "layout"}

validateBloglistBlock(block, path) ==
    IF block.limitKind = "number" /\ block.limit < 1
    THEN Invalid([code |-> "CONTENT_INVALID_ELEMENT",
                  element |-> "bloglist with invalid limit", path |-> path])
    ELSE Valid

validateContentBlock(block, path) ==
    IF block.type \notin allowedBlockTypes
    THEN Invalid([code |-> "CONTENT_INVALID_ELEMENT", element |-> block.type,
                  path |-> path])
    ELSE IF block.type = "bloglist" THEN validateBloglistBlock(block, path)
    ELSE Valid

\* the result of the first element of 1..n that fails `check`, scanning
\* upwards as the for loops of the validators do
FirstInvalid(n, check(_)) ==
    LET bad == {i \in 1..n : ~check(i).valid}
    IN  IF bad = {} THEN Valid
        ELSE check(CHOOSE i \in bad : \A j \in bad : i <= j)

validateContent(blocks) ==
    IF Len(blocks) = 0 THEN Invalid([code |-> "CONTENT_EMPTY"])
    ELSE FirstInvalid(Len(blocks),
                      LAMBDA i : validateContentBlock(blocks[i],
                                                      <<"content", i - 1>>))

validateNavigation(items) ==
    FirstInvalid(Len(items),
                 LAMBDA i :
                     IF items[i].textTrimmedLength = 0
                     THEN Invalid([code |-> "CONTENT_INVALID_ELEMENT",
                                   element |-> "navigation item with empty text",
                                   path |-> <<"navigation.items", i - 1>>])
                     ELSE IF ~items[i].hrefMatches
                     THEN Invalid([code |-> "INVALID_HREF",
                                   path |-> <<"navigation.items", i - 1>>])
                     ELSE Valid)

validateFooter(contentIsString) ==
    IF ~contentIsString
    THEN Invalid([code |-> "CONTENT_INVALID_ELEMENT",
                  element |-> "footer with non-string content"])
    ELSE Valid

\* braceCount after the first i braces of the rules
BraceCount(braces, i) ==
    Cardinality({j \in 1..i : braces[j].char = "{"})
    - Cardinality({j \in 1..i : braces[j].char = "}"})

validateCss(rules) ==
    LET negative == {i \in 1..Len(rules.braces) : BraceCount(rules.braces, i) < 0}
    IN  IF negative # {}
        THEN LET i == CHOOSE k \in negative : \A j \in negative : k <= j
             IN  Invalid([code |-> "CSS_PARSE_ERROR",
                          offset |-> rules.braces[i].offset,
                          message |-> "Unexpected closing brace"])
        ELSE IF BraceCount(rules.braces, Len(rules.braces)) # 0
        THEN Invalid([code |-> "CSS_PARSE_ERROR", offset |-> rules.length,
                      message |-> "Unbalanced braces"])
        ELSE Valid

validateMeta(meta) ==
    IF meta.descriptionLength > MAX_META_DESCRIPTION_LENGTH
    THEN Invalid([code |-> "CONTENT_INVALID_ELEMENT",
                  element |-> "meta description", length |-> meta.descriptionLength])
    ELSE IF meta.authorLength > MAX_META_AUTHOR_LENGTH
    THEN Invalid([code |-> "CONTENT_INVALID_ELEMENT",
                  element |-> "meta author", length |-> meta.authorLength])
    ELSE Valid

validateIcons(icons) ==
    FirstInvalid(Len(icons),
                 LAMBDA i :
                     IF ~icons[i].whitelisted
                     THEN Invalid([code |-> "ICON_NOT_IN_WHITELIST",
                                   path |-> <<"icons", i - 1>>])
                     ELSE Valid)

\* validateInput that tests the title before the slug
validateInputTitleFirst(inp) ==
    IF ~validateTitle(inp.title).valid THEN validateTitle(inp.title)
    ELSE IF ~validateSlug(inp.slug).valid THEN validateSlug(inp.slug)
    ELSE IF ~validateContent(inp.content).valid THEN validateContent(inp.content)
    ELSE IF inp.navigation > 0 /\ ~validateNavigation(inp.navItems).valid
    THEN validateNavigation(inp.navItems)
    ELSE IF inp.footer > 0 /\ ~validateFooter(inp.footerContentIsString).valid
    THEN validateFooter(inp.footerContentIsString)
    ELSE IF inp.cssHtml > 0 /\ ~validateCss(inp.cssRules).valid
    THEN validateCss(inp.cssRules)
    ELSE IF inp.metaHtml > 0 /\ ~validateMeta(inp.meta).valid
    THEN validateMeta(inp.meta)
    ELSE validateIcons(inp.icons)

validateInput(inp) ==
    IF ~validateSlug(inp.slug).valid THEN validateSlug(inp.slug)
    ELSE IF ~validateTitle(inp.title).valid THEN validateTitle(inp.title)
    ELSE IF ~validateContent(inp.content).valid THEN validateContent(inp.content)
    ELSE IF inp.navigation > 0 /\ ~validateNavigation(inp.navItems).valid
    THEN validateNavigation(inp.navItems)
    ELSE IF inp.footer > 0 /\ ~validateFooter(inp.footerContentIsString).valid
    THEN validateFooter(inp.footerContentIsString)
    ELSE IF inp.cssHtml > 0 /\ ~validateCss(inp.cssRules).valid
    THEN validateCss(inp.cssRules)
    ELSE IF inp.metaHtml > 0 /\ ~validateMeta(inp.meta).valid
    THEN validateMeta(inp.meta)
    ELSE validateIcons(inp.icons)

(***************************************************************************)
(* flatten.ts                                                              *)
(***************************************************************************)
\* published.sort((a, b) => b.publishedAt - a.publishedAt): stable, descending
RECURSIVE InsertDesc(_, _)
InsertDesc(p, s) ==
    IF s = <<>> THEN <<p>>
    ELSE IF Head(s).post.publishedAt >= p.post.publishedAt
         THEN <<Head(s)>> \o InsertDesc(p, Tail(s))
         ELSE <<p>> \o s

RECURSIVE SortDesc(_)
SortDesc(s) ==
    IF s = <<>> THEN <<>>
    ELSE Apply(LAMBDA sorted : InsertDesc(s[Len(s)], sorted),
               SortDesc(SubSeq(s, 1, Len(s) - 1)))

\* Published that keeps the published entries of every page type
PublishedAnyType(posts) ==
    LET keep(i) == posts[i].status = "published"
        F[i \in 0..Len(posts)] ==
            IF i = 0 THEN <<>>
            ELSE IF keep(i) THEN F[i - 1] \o <<[post |-> posts[i], id |-> i]>>
                 ELSE F[i - 1]
    IN  F[Len(posts)]

\* posts.filter(p => p.status === 'published' && p.pageType === 'post'),
\* each kept post paired with its position in input.posts
Published(posts) ==
    LET keep(i) == posts[i].status = "published" /\ posts[i].pageType = "post"
        F[i \in 0..Len(posts)] ==
            IF i = 0 THEN <<>>
            ELSE IF keep(i) THEN F[i - 1] \o <<[post |-> posts[i], id |-> i]>>
                 ELSE F[i - 1]
    IN  F[Len(posts)]

Html(src, part, post) == [src |-> src, part |-> part, post |-> post]

FlatBlock(html, bytes, sourceIndex, blockType, crlf) ==
    [html |-> html, bytes |-> bytes, sourceIndex |-> sourceIndex,
     blockType |-> blockType, crlf |-> crlf]

\* bloglistItems that appends the end-of-list marker for every limit
bloglistItemsAlwaysMarked(published, block, sourceIndex) ==
    LET limit == IF block.limitKind = "null" THEN Len(published)
                 ELSE IF block.limitKind = "number" THEN block.limit
                 ELSE DEFAULT_BLOGLIST_LIMIT
        limitedPosts == SubSeq(published, 1, Min(limit, Len(published)))
        items == [i \in 1..Len(limitedPosts) |->
                    FlatBlock(Html(sourceIndex, "post", limitedPosts[i].id),
                              limitedPosts[i].post.bytes, sourceIndex,
                              "bloglist-item", 0)]
        trailer ==
            IF block.archiveLink > 0
            THEN <<FlatBlock(Html(sourceIndex, "archive-link", 0),
                             block.archiveLink, sourceIndex,
                             "bloglist-archive-link", 0)>>
            ELSE <<FlatBlock(Html(sourceIndex, "end-of-list", 0),
                             EndOfListBytes, sourceIndex,
                             "bloglist-archive-link", 0)>>
    IN  IF Len(published) = 0
        THEN <<FlatBlock(Html(sourceIndex, "empty", 0), EmptyStateBytes,
                         sourceIndex, "none", 0)>>
        ELSE items \o trailer

\* the blocks of a bloglist, given its published posts, newest first
bloglistItems(published, block, sourceIndex) ==
    LET limit == IF block.limitKind = "null" THEN Len(published)
                 ELSE IF block.limitKind = "number" THEN block.limit
                 ELSE DEFAULT_BLOGLIST_LIMIT
        limitedPosts == SubSeq(published, 1, Min(limit, Len(published)))
        items == [i \in 1..Len(limitedPosts) |->
                    FlatBlock(Html(sourceIndex, "post", limitedPosts[i].id),
                              limitedPosts[i].post.bytes, sourceIndex,
                              "bloglist-item", 0)]
        trailer ==
            IF block.archiveLink > 0
            THEN <<FlatBlock(Html(sourceIndex, "archive-link", 0),
                             block.archiveLink, sourceIndex,
                             "bloglist-archive-link", 0)>>
            ELSE IF block.limitKind = "null"
            THEN <<FlatBlock(Html(sourceIndex, "end-of-list", 0),
                             EndOfListBytes, sourceIndex,
                             "bloglist-archive-link", 0)>>
            ELSE <<>>
    IN  IF Len(published) = 0
        THEN <<FlatBlock(Html(sourceIndex, "empty", 0), EmptyStateBytes,
                         sourceIndex, "none", 0)>>
        ELSE items \o trailer

flattenBloglistToItems(posts, block, sourceIndex) ==
    Apply(LAMBDA published : bloglistItems(published, block, sourceIndex),
          SortDesc(Published(posts)))

\* input.content.forEach((block, index) => ...): index is zero-based
FlattenContent(inp) ==
    Flat([i \in 1..Len(inp.content) |->
            IF inp.content[i].type = "bloglist"
            THEN flattenBloglistToItems(inp.posts, inp.content[i], i - 1)
            ELSE <<FlatBlock(Html(i - 1, "block", 0), inp.content[i].bytes,
                             i - 1, "none", inp.content[i].crlf)>>])

\* measureBytes(parts.join('\n')) for parts of the given byte lengths
JoinBytes(lens) == SumSeq(lens) + Max(0, Len(lens) - 1) * NewlineBytes

BlockBytes(blocks) == [i \in 1..Len(blocks) |-> blocks[i].bytes]

Present(n) == IF n > 0 THEN 1 ELSE 0

\* flatten() once the content blocks are rendered
flattenResult(inp, contentBlocks) ==
    LET contentHtml == JoinBytes(BlockBytes(contentBlocks))
        headContent == CharsetMetaBytes + NewlineBytes + ViewportMetaBytes
                       + NewlineBytes + inp.titleHtml
                       + Present(inp.faviconHtml) * (NewlineBytes + inp.faviconHtml)
                       + Present(inp.metaHtml) * (NewlineBytes + inp.metaHtml)
                       + Present(inp.cssHtml) * (NewlineBytes + inp.cssHtml)
        head == HeadOpenBytes + headContent + HeadCloseBytes
        headStructureBytes == HeadPrefixBytes
                              + Present(inp.faviconHtml) * NewlineBytes
                              + Present(inp.metaHtml) * NewlineBytes
                              + Present(inp.cssHtml) * NewlineBytes
                              + HeadSuffixBytes
        base == DoctypeBytes + NewlineBytes + HtmlOpenBytes + NewlineBytes
                + headStructureBytes + NewlineBytes + BodyOpenBytes + NewlineBytes
                + MainOpenBytes + NewlineBytes + MainCloseBytes + NewlineBytes
                + BodyCloseBytes + NewlineBytes + HtmlCloseBytes
                + Present(inp.navigation) * NewlineBytes
                + Present(contentHtml) * NewlineBytes
                + Present(inp.footer) * NewlineBytes
    IN  [page |-> [doctype |-> DoctypeBytes, htmlOpen |-> HtmlOpenBytes,
                   head |-> head, bodyOpen |-> BodyOpenBytes,
                   navigation |-> inp.navigation, mainOpen |-> MainOpenBytes,
                   content |-> contentHtml, mainClose |-> MainCloseBytes,
                   footer |-> inp.footer, bodyClose |-> BodyCloseBytes,
                   htmlClose |-> HtmlCloseBytes],
         contentBlocks |-> contentBlocks,
         breakdown |-> [base |-> base, title |-> inp.titleHtml,
                        favicon |-> inp.faviconHtml, meta |-> inp.metaHtml,
                        css |-> inp.cssHtml, navigation |-> inp.navigation,
                        footer |-> inp.footer, pagination |-> 0,
                        icons |-> inp.iconBytes, content |-> contentHtml]]

flatten(inp) ==
    Apply(LAMBDA contentBlocks : flattenResult(inp, contentBlocks),
          FlattenContent(inp))

(***************************************************************************)
(* measure.ts                                                              *)
(***************************************************************************)
totalFromBreakdown(b) ==
    b.base + b.title + b.favicon + b.meta + b.css + b.navigation + b.footer
    + b.pagination + b.icons + b.content


(***************************************************************************)
(* paginate.ts                                                             *)
(***************************************************************************)
\* PageFile that gives the first page a numbered file name as well
PageFileSuffixed(baseSlug, i) == baseSlug \o "-" \o ToString(i) \o ".html"

\* file name a pagination link points to
PageFile(baseSlug, i) ==
    IF i = 1 THEN baseSlug \o ".html"
    ELSE baseSlug \o "-" \o ToString(i) \o ".html"

\* generatePaginationNav whose loop runs one page past totalPages
generatePaginationNavPastEnd(baseSlug, currentPage, totalPages) ==
    IF totalPages <= 1 THEN <<>>
    ELSE [i \in 1..(totalPages + 1) |->
            [page |-> i, current |-> (i = currentPage),
             href |-> IF i = currentPage THEN "" ELSE PageFile(baseSlug, i)]]

\* the links of the navigation fragment, <<>> for the empty string
generatePaginationNav(baseSlug, currentPage, totalPages) ==
    IF totalPages <= 1 THEN <<>>
    ELSE [i \in 1..totalPages |->
            [page |-> i, current |-> (i = currentPage),
             href |-> IF i = currentPage THEN "" ELSE PageFile(baseSlug, i)]]

LinkBytes(link) ==
    IF link.current THEN SpanMarkupBytes + Digits(link.page)
    ELSE AnchorMarkupBytes + measureBytes(link.href) + Digits(link.page)

\* measureBytes of `<div class="pagination">\n${links.join('\n')}\n</div>`
NavHtmlBytes(links) ==
    IF links = <<>> THEN 0
    ELSE NavOpenBytes + JoinBytes([i \in 1..Len(links) |-> LinkBytes(links[i])])
         + NavCloseBytes

\* calculatePaginationBytes for a navigation that links only the first page
\* and the current one once there are more than three pages
calculatePaginationBytesWindowed(baseSlug, currentPage, totalPages) ==
    NavHtmlBytes(generatePaginationNav(baseSlug, currentPage,
                                       IF totalPages > 3 THEN 2 ELSE totalPages))

calculatePaginationBytes(baseSlug, currentPage, totalPages) ==
    NavHtmlBytes(generatePaginationNav(baseSlug, currentPage, totalPages))

calculateFixedOverhead(b) ==
    b.base + b.title + b.favicon + b.meta + b.css + b.navigation + b.footer
    + b.icons

\* AssemblePart that opens a new <ul> for every item
AssemblePartPerItem(parts, block) ==
    parts \o <<[wrapped |-> (block.blockType = "bloglist-item"), open |-> FALSE,
                blocks |-> <<block>>]>>

\* parts of the content HTML: a block, or a <ul> wrapper around a run of items
\* one step of `for (const block of blocks)`: the open <ul> run takes an item,
\* any other block closes it
AssemblePart(parts, block) ==
    LET n == Len(parts)
    IN  IF block.blockType = "bloglist-item"
        THEN IF n > 0 /\ parts[n].wrapped /\ parts[n].open
             THEN [parts EXCEPT ![n].blocks = @ \o <<block>>]
             ELSE parts \o <<[wrapped |-> TRUE, open |-> TRUE,
                              blocks |-> <<block>>]>>
        ELSE [i \in 1..n |-> [parts[i] EXCEPT !.open = FALSE]]
             \o <<[wrapped |-> FALSE, open |-> FALSE, blocks |-> <<block>>]>>

RECURSIVE AssembleParts(_, _)
AssembleParts(blocks, i) ==
    IF i = 0 THEN <<>>
    ELSE Apply(LAMBDA parts : AssemblePart(parts, blocks[i]),
               AssembleParts(blocks, i - 1))

assembleContentHtml(blocks) ==
    LET parts == AssembleParts(blocks, Len(blocks))
    IN  [i \in 1..Len(parts) |->
            [wrapped |-> parts[i].wrapped, blocks |-> parts[i].blocks]]

\* PartBytes that leaves the closing tag of the wrapper out
PartBytesUnclosed(part) ==
    IF part.wrapped
    THEN BLOGLIST_WRAPPER_OPEN + JoinBytes(BlockBytes(part.blocks))
    ELSE part.blocks[1].bytes

PartBytes(part) ==
    IF part.wrapped
    THEN BLOGLIST_WRAPPER_OPEN + JoinBytes(BlockBytes(part.blocks))
         + BLOGLIST_WRAPPER_CLOSE
    ELSE part.blocks[1].bytes

\* measureBytes(contentHtml)
ContentHtmlBytes(parts) == JoinBytes([i \in 1..Len(parts) |-> PartBytes(parts[i])])

\* calculateBloglistWrapperOverhead that charges the wrapper for every item
calculateBloglistWrapperOverheadPerItem(blocks) ==
    SumSeq([i \in 1..Len(blocks) |->
              IF blocks[i].blockType = "bloglist-item"
              THEN BLOGLIST_WRAPPER_BYTES ELSE 0])

calculateBloglistWrapperOverhead(blocks) ==
    LET step(acc, block) ==
            IF block.blockType = "bloglist-item"
            THEN IF ~acc.inBloglist
                 THEN [overhead |-> acc.overhead + BLOGLIST_WRAPPER_BYTES,
                       inBloglist |-> TRUE]
                 ELSE acc
            ELSE [acc EXCEPT !.inBloglist = FALSE]
        F[i \in 0..Len(blocks)] ==
            IF i = 0 THEN [overhead |-> 0, inBloglist |-> FALSE]
            ELSE Apply(LAMBDA acc : step(acc, blocks[i]), F[i - 1])
    IN  F[Len(blocks)].overhead

PaginatedPage(pageNumber, blocks, baseSlug, totalPages, baseBreakdown) ==
    LET contentHtml == assembleContentHtml(blocks)
        paginationHtml == generatePaginationNav(baseSlug, pageNumber, totalPages)
    IN  [pageNumber |-> pageNumber, contentBlocks |-> blocks,
         contentHtml |-> contentHtml, paginationHtml |-> paginationHtml,
         breakdown |-> [baseBreakdown EXCEPT
                           !.content = ContentHtmlBytes(contentHtml),
                           !.pagination = NavHtmlBytes(paginationHtml)]]

\* state of one packing pass before its first block; closedBytes records
\* currentPageBytes as it stood each time a page was pushed
PassStart ==
    [pages |-> <<>>, currentPageBlocks |-> <<>>, currentPageBytes |-> 0,
     currentPageHasBloglist |-> FALSE, pageNumber |-> 1,
     closedBytes |-> <<>>, error |-> [code |-> "none"]]

\* PackBlock that starts the new page without emitting the page it closes
PackBlockDiscarding(st, block, baseSlug, fixedOverhead, baseBreakdown, estimate) ==
    LET paginationBytes == calculatePaginationBytes(baseSlug, st.pageNumber, estimate)
        availableBudget == SIZE_LIMIT - fixedOverhead - paginationBytes
        newlineBytes == IF Len(st.currentPageBlocks) > 0 THEN 1 ELSE 0
        isItem == block.blockType = "bloglist-item"
        candidateBytes == st.currentPageBytes + newlineBytes + block.bytes
                          + (IF isItem /\ ~st.currentPageHasBloglist
                             THEN BLOGLIST_WRAPPER_BYTES ELSE 0)
    IN  IF candidateBytes <= availableBudget
        THEN [st EXCEPT !.currentPageBlocks = @ \o <<block>>,
                        !.currentPageBytes = candidateBytes,
                        !.currentPageHasBloglist = isItem]
        ELSE IF Len(st.currentPageBlocks) = 0
        THEN [st EXCEPT !.error =
                [code |-> "PAGINATION_BLOCK_TOO_LARGE",
                 blockIndex |-> block.sourceIndex, blockSize |-> block.bytes,
                 availableBudget |-> availableBudget]]
        ELSE [st EXCEPT
                !.currentPageBlocks = <<block>>,
                !.currentPageBytes = block.bytes
                    + (IF isItem THEN BLOGLIST_WRAPPER_BYTES ELSE 0),
                !.currentPageHasBloglist = isItem]

\* body of `for (let i = 0; i < contentBlocks.length; i++)` for one block
PackBlock(st, block, baseSlug, fixedOverhead, baseBreakdown, estimate) ==
    LET paginationBytes == calculatePaginationBytes(baseSlug, st.pageNumber, estimate)
        availableBudget == SIZE_LIMIT - fixedOverhead - paginationBytes
        newlineBytes == IF Len(st.currentPageBlocks) > 0 THEN 1 ELSE 0
        isItem == block.blockType = "bloglist-item"
        candidateBytes == st.currentPageBytes + newlineBytes + block.bytes
                          + (IF isItem /\ ~st.currentPageHasBloglist
                             THEN BLOGLIST_WRAPPER_BYTES ELSE 0)
    IN  IF candidateBytes <= availableBudget
        THEN [st EXCEPT !.currentPageBlocks = @ \o <<block>>,
                        !.currentPageBytes = candidateBytes,
                        !.currentPageHasBloglist = isItem]
        ELSE IF Len(st.currentPageBlocks) = 0
        THEN [st EXCEPT !.error =
                [code |-> "PAGINATION_BLOCK_TOO_LARGE",
                 blockIndex |-> block.sourceIndex, blockSize |-> block.bytes,
                 availableBudget |-> availableBudget]]
        ELSE [st EXCEPT
                !.pages = @ \o <<PaginatedPage(st.pageNumber, st.currentPageBlocks,
                                               baseSlug, estimate, baseBreakdown)>>,
                !.closedBytes = @ \o <<st.currentPageBytes>>,
                !.pageNumber = @ + 1,
                !.currentPageBlocks = <<block>>,
                !.currentPageBytes = block.bytes
                    + (IF isItem THEN BLOGLIST_WRAPPER_BYTES ELSE 0),
                !.currentPageHasBloglist = isItem]

\* PackFrom that packs every block against one page more than estimated
RECURSIVE PackFromOverestimate(_, _, _, _, _, _)
PackFromOverestimate(i, blocks, baseSlug, fixedOverhead, baseBreakdown, estimate) ==
    IF i = 0 THEN PassStart
    ELSE Apply(LAMBDA st :
                   IF st.error.code # "none" THEN st
                   ELSE PackBlock(st, blocks[i], baseSlug, fixedOverhead,
                                  baseBreakdown, estimate + 1),
               PackFromOverestimate(i - 1, blocks, baseSlug, fixedOverhead, baseBreakdown,
                        estimate))

\* the state of the pass after the first i blocks; an error ends the loop
RECURSIVE PackFrom(_, _, _, _, _, _)
PackFrom(i, blocks, baseSlug, fixedOverhead, baseBreakdown, estimate) ==
    IF i = 0 THEN PassStart
    ELSE Apply(LAMBDA st :
                   IF st.error.code # "none" THEN st
                   ELSE PackBlock(st, blocks[i], baseSlug, fixedOverhead,
                                  baseBreakdown, estimate),
               PackFrom(i - 1, blocks, baseSlug, fixedOverhead, baseBreakdown,
                        estimate))

\* one packing pass: the for loop and the emission of the final page
PackPages(blocks, baseSlug, fixedOverhead, baseBreakdown, estimate) ==
    Apply(LAMBDA st :
              IF st.error.code # "none" \/ Len(st.currentPageBlocks) = 0 THEN st
              ELSE [st EXCEPT
                      !.pages = @ \o <<PaginatedPage(st.pageNumber,
                                                     st.currentPageBlocks, baseSlug,
                                                     estimate, baseBreakdown)>>,
                      !.closedBytes = @ \o <<st.currentPageBytes>>],
          PackFrom(Len(blocks), blocks, baseSlug, fixedOverhead, baseBreakdown,
                   estimate))

\* FixUpPages that writes a navigation with one link more than there are pages
FixUpPagesOneMore(ps, baseSlug) ==
    [i \in 1..Len(ps) |->
        LET nav == generatePaginationNav(baseSlug, ps[i].pageNumber, Len(ps) + 1)
        IN  [ps[i] EXCEPT !.paginationHtml = nav,
                          !.breakdown.pagination = NavHtmlBytes(nav)]]

\* `Update pagination HTML with actual page count`
FixUpPages(ps, baseSlug) ==
    [i \in 1..Len(ps) |->
        LET nav == generatePaginationNav(baseSlug, ps[i].pageNumber, Len(ps))
        IN  [ps[i] EXCEPT !.paginationHtml = nav,
                          !.breakdown.pagination = NavHtmlBytes(nav)]]

PaginationSuccess(ps) == [success |-> TRUE, pages |-> ps, error |-> [code |-> "none"]]

PaginationFailure(err) == [success |-> FALSE, pages |-> <<>>, error |-> err]

totalContentWithNewlines(blocks) ==
    SumSeq(BlockBytes(blocks)) + Max(0, Len(blocks) - 1)

\* Math.max(2, Math.ceil(total / (SIZE_LIMIT - fixedOverhead - 100))) for
\* total > 0: Infinity for a zero divisor, 2 for a negative one
seedEstimate(total, fixedOverhead) ==
    LET divisor == SIZE_LIMIT - fixedOverhead - EstimateMargin
    IN  [kind |-> IF divisor = 0 THEN "Infinity" ELSE "finite",
         pages |-> IF divisor > 0
                   THEN Max(2, (total + divisor - 1) \div divisor)
                   ELSE 2]


(***************************************************************************)
(* flatten.ts (assembly), measure.ts (measurement), compiler.ts (emission) *)
(***************************************************************************)
Fragment(name, bytes) == [name |-> name, bytes |-> bytes]

\* `\r\n` pairs in the content of a page: each is one byte shorter once
\* normalizeLineEndings has run
CrlfPairs(contentHtml) ==
    SumSeq([i \in 1..Len(contentHtml) |->
              SumSeq([j \in 1..Len(contentHtml[i].blocks) |->
                        contentHtml[i].blocks[j].crlf])])

\* assemblePageWithContent that pushes the pagination fragment after </main>
assemblePageWithContentNavOutside(page, contentHtml, paginationHtml) ==
    [parts |->
        <<Fragment("doctype", page.doctype), Fragment("htmlOpen", page.htmlOpen),
          Fragment("head", page.head), Fragment("bodyOpen", page.bodyOpen)>>
        \o (IF page.navigation > 0
            THEN <<Fragment("navigation", page.navigation)>> ELSE <<>>)
        \o <<Fragment("mainOpen", page.mainOpen)>>
        \o (IF contentHtml # <<>>
            THEN <<Fragment("content", ContentHtmlBytes(contentHtml))>> ELSE <<>>)
        \o <<Fragment("mainClose", page.mainClose)>>
        \o (IF paginationHtml # <<>>
            THEN <<Fragment("pagination", NavHtmlBytes(paginationHtml))>> ELSE <<>>)
        \o (IF page.footer > 0 THEN <<Fragment("footer", page.footer)>> ELSE <<>>)
        \o <<Fragment("bodyClose", page.bodyClose),
             Fragment("htmlClose", page.htmlClose)>>,
     content |-> contentHtml, pagination |-> paginationHtml,
     crlfRemoved |-> CrlfPairs(contentHtml)]

\* normalizeLineEndings(parts.join('\n')) of assemblePageWithContent
assemblePageWithContent(page, contentHtml, paginationHtml) ==
    [parts |->
        <<Fragment("doctype", page.doctype), Fragment("htmlOpen", page.htmlOpen),
          Fragment("head", page.head), Fragment("bodyOpen", page.bodyOpen)>>
        \o (IF page.navigation > 0
            THEN <<Fragment("navigation", page.navigation)>> ELSE <<>>)
        \o <<Fragment("mainOpen", page.mainOpen)>>
        \o (IF contentHtml # <<>>
            THEN <<Fragment("content", ContentHtmlBytes(contentHtml))>> ELSE <<>>)
        \o (IF paginationHtml # <<>>
            THEN <<Fragment("pagination", NavHtmlBytes(paginationHtml))>> ELSE <<>>)
        \o <<Fragment("mainClose", page.mainClose)>>
        \o (IF page.footer > 0 THEN <<Fragment("footer", page.footer)>> ELSE <<>>)
        \o <<Fragment("bodyClose", page.bodyClose),
             Fragment("htmlClose", page.htmlClose)>>,
     content |-> contentHtml, pagination |-> paginationHtml,
     crlfRemoved |-> CrlfPairs(contentHtml)]

\* measureBytes(html) of an assembled, normalized document
HtmlBytes(html) ==
    JoinBytes([i \in 1..Len(html.parts) |-> html.parts[i].bytes]) - html.crlfRemoved

\* SHA-256 of the document, taken to be collision free
computeHash(html) == [sha256 |-> html]

\* paginatedSlug that suffixes the first page as well
paginatedSlugSuffixed(baseSlug, pageNumber) ==
    baseSlug \o "-" \o ToString(pageNumber)

paginatedSlug(baseSlug, pageNumber) ==
    IF pageNumber = 1 THEN baseSlug ELSE baseSlug \o "-" \o ToString(pageNumber)

createPageMeasurement(slug, breakdown) ==
    [slug |-> slug, breakdown |-> breakdown, total |-> totalFromBreakdown(breakdown),
     remaining |-> SIZE_LIMIT - totalFromBreakdown(breakdown)]

\* OversizedBlock without the `break`: the last oversized block is reported
OversizedBlockLast(blocks, availableBudget) ==
    LET over == {i \in 1..Len(blocks) : blocks[i].bytes > availableBudget}
    IN  IF over = {} THEN [defined |-> FALSE, index |-> 0, size |-> 0,
                           availableBudget |-> availableBudget]
        ELSE LET i == CHOOSE k \in over : \A m \in over : k >= m
             IN  [defined |-> TRUE, index |-> blocks[i].sourceIndex,
                  size |-> blocks[i].bytes, availableBudget |-> availableBudget]

\* the first block of `blocks` whose size alone exceeds the budget, if any
OversizedBlock(blocks, availableBudget) ==
    LET over == {i \in 1..Len(blocks) : blocks[i].bytes > availableBudget}
    IN  IF over = {} THEN [defined |-> FALSE, index |-> 0, size |-> 0,
                           availableBudget |-> availableBudget]
        ELSE LET i == CHOOSE k \in over : \A m \in over : k <= m
             IN  [defined |-> TRUE, index |-> blocks[i].sourceIndex,
                  size |-> blocks[i].bytes, availableBudget |-> availableBudget]

NoTotals == [pageCount |-> 0, totalBytes |-> 0, largestPage |-> 0, smallestPage |-> 0]

\* a failure without partialMeasurements
CompilerFailure(timestamp, err) ==
    [success |-> FALSE, timestamp |-> timestamp, error |-> err, pages |-> <<>>,
     measurements |-> <<>>, totals |-> NoTotals,
     partialMeasurements |-> [defined |-> FALSE]]

\* a failure with partialMeasurements: createPageMeasurement(input.slug, breakdown)
MeasuredFailure(timestamp, err, slug, breakdown) ==
    [CompilerFailure(timestamp, err) EXCEPT
        !.partialMeasurements =
            [defined |-> TRUE,
             measurement |-> createPageMeasurement(slug, breakdown)]]

CompiledPage(inp, page, paginatedPage, totalPages) ==
    Apply(LAMBDA html :
              [slug |-> paginatedSlug(inp.slug, paginatedPage.pageNumber),
               pageNumber |-> paginatedPage.pageNumber, totalPages |-> totalPages,
               html |-> html, bytes |-> HtmlBytes(html), hash |-> computeHash(html)],
          assemblePageWithContent(page, paginatedPage.contentHtml,
                                  paginatedPage.paginationHtml))

\* Math.max(...s) and Math.min(...s) of a non-empty sequence
MaxOf(s) == Apply(LAMBDA v : CHOOSE m \in {v[i] : i \in 1..Len(v)} :
                                 \A i \in 1..Len(v) : v[i] <= m, s)

MinOf(s) == Apply(LAMBDA v : CHOOSE m \in {v[i] : i \in 1..Len(v)} :
                                 \A i \in 1..Len(v) : v[i] >= m, s)

\* all pages of the run, assembled, measured and hashed
CompiledPages(inp, page, paginated) ==
    [i \in 1..Len(paginated) |->
        CompiledPage(inp, page, paginated[i], Len(paginated))]

\* the successful CompilerResult
CompilerSuccess(compiled, paginated, timestamp) ==
    LET n == Len(compiled)
        bytes == [i \in 1..n |-> compiled[i].bytes]
    IN  [success |-> TRUE, timestamp |-> timestamp,
         error |-> [code |-> "none"], pages |-> compiled,
         measurements |-> [i \in 1..n |->
             createPageMeasurement(compiled[i].slug, paginated[i].breakdown)],
         totals |-> [pageCount |-> n, totalBytes |-> SumSeq(bytes),
                     largestPage |-> MaxOf(bytes),
                     smallestPage |-> MinOf(bytes)],
         partialMeasurements |-> [defined |-> FALSE]]

\* `Final verification`: the first page over SIZE_LIMIT fails the compile
VerifyPages(compiled, paginated, timestamp) ==
    LET over == {i \in 1..Len(compiled) : compiled[i].bytes > SIZE_LIMIT}
    IN  IF over # {}
        THEN LET i == CHOOSE k \in over : \A m \in over : k <= m
                 b == paginated[i].breakdown
                 pageAvailableBudget ==
                     SIZE_LIMIT - (calculateFixedOverhead(b) + b.pagination)
             IN  CompilerFailure(timestamp,
                    [code |-> "SIZE_LIMIT_EXCEEDED", measured |-> compiled[i].bytes,
                     limit |-> SIZE_LIMIT, breakdown |-> b,
                     oversizedBlock |->
                        OversizedBlock(paginated[i].contentBlocks,
                                       pageAvailableBudget)])
        ELSE CompilerSuccess(compiled, paginated, timestamp)

\* EmitPages without the final `bytes > SIZE_LIMIT` verification
EmitPagesUnverified(inp, page, paginated, timestamp) ==
    Apply(LAMBDA compiled : CompilerSuccess(compiled, paginated, timestamp),
          CompiledPages(inp, page, paginated))

\* Stage 5 of compile(): assemble, measure and re-verify every page
EmitPages(inp, page, paginated, timestamp) ==
    Apply(LAMBDA compiled : VerifyPages(compiled, paginated, timestamp),
          CompiledPages(inp, page, paginated))

(***************************************************************************)
(* State machine of one compile() call                                     *)
(***************************************************************************)
NoResult == [success |-> FALSE, timestamp |-> -1, error |-> [code |-> "pending"],
             pages |-> <<>>, measurements |-> <<>>, totals |-> NoTotals,
             partialMeasurements |-> [defined |-> FALSE]]

NoFlat == [page |-> [content |-> 0], contentBlocks |-> <<>>,
           breakdown |-> [content |-> 0]]

NoPagination == [success |-> FALSE, pages |-> <<>>, error |-> [code |-> "pending"]]

\* no packing pass has run
NoPass == [iteration |-> 0, estimate |-> 0, pages |-> <<>>, closedBytes |-> <<>>,
           error |-> [code |-> "none"]]

\* compile(), stages 1-4 up to the call of paginate(): an input that
\* validateInput rejects is neither flattened nor paginated
Flatten ==
    /\ UNCHANGED <<procs, files>>
    /\ pc = "compile"
    /\ \E validation \in {validateInput(input)} :
       IF ~validation.valid
       THEN /\ result' = CompilerFailure(now, validation.error)
            /\ pc' = "done"
            /\ UNCHANGED <<flat, paginationResult, estimatedPages, estimateKind,
                           iteration, previousPageCount, navLinks, pass>>
       ELSE /\ \E f \in {flatten(input)} :
               LET totalBytes == totalFromBreakdown(f.breakdown)
                   availableBudget ==
                       SIZE_LIMIT - (calculateFixedOverhead(f.breakdown)
                                     + f.breakdown.pagination)
               IN  /\ flat' = f
                   /\ IF totalBytes > SIZE_LIMIT /\ ~input.allowPagination
                      THEN /\ result' = MeasuredFailure(now,
                                  [code |-> "SIZE_LIMIT_EXCEEDED",
                                   measured |-> totalBytes,
                                   limit |-> SIZE_LIMIT, breakdown |-> f.breakdown,
                                   oversizedBlock |->
                                      OversizedBlock(f.contentBlocks,
                                                     availableBudget)],
                                  input.slug, f.breakdown)
                           /\ pc' = "done"
                      ELSE /\ result' = [NoResult EXCEPT !.timestamp = now]
                           /\ pc' = "paginate"
            /\ paginationResult' = NoPagination
            /\ estimatedPages' = 0
            /\ estimateKind' = "finite"
            /\ iteration' = 0
            /\ previousPageCount' = 0
            /\ navLinks' = 0
            /\ pass' = NoPass
    /\ now' = now + 1
    /\ UNCHANGED <<input, firstResult, manifest, command, exitCode, ops>>

\* paginate() up to the start of the iteration
PaginateStart ==
    /\ UNCHANGED <<procs, files>>
    /\ pc = "paginate"
    /\ LET blocks == flat.contentBlocks
           fixedOverhead == calculateFixedOverhead(flat.breakdown)
           total == totalContentWithNewlines(blocks)
           bloglistWrapperOverhead == calculateBloglistWrapperOverhead(blocks)
           seed == seedEstimate(total, fixedOverhead)
       IN  IF fixedOverhead + total + bloglistWrapperOverhead <= SIZE_LIMIT
           THEN /\ paginationResult' = PaginationSuccess(
                      <<PaginatedPage(1, blocks, input.slug, 1, flat.breakdown)>>)
                /\ pc' = "emit"
                /\ UNCHANGED <<estimatedPages, estimateKind>>
           ELSE IF ~input.allowPagination
           THEN /\ paginationResult' = PaginationFailure(
                      [code |-> "PAGINATION_DISABLED",
                       measured |-> fixedOverhead + total, limit |-> SIZE_LIMIT])
                /\ pc' = "emit"
                /\ UNCHANGED <<estimatedPages, estimateKind>>
           ELSE /\ paginationResult' = paginationResult
                /\ pc' = "pack"
                /\ estimateKind' = seed.kind
                /\ estimatedPages' = seed.pages
    /\ UNCHANGED <<input, flat, iteration, previousPageCount, navLinks, pass, result,
                   firstResult, now, manifest, command, exitCode, ops>>

\* one iteration of `while (iteration < MAX_PAGINATION_ITERATIONS)` and, after
\* the last one, the exit of the loop
PackPass ==
    /\ UNCHANGED <<procs, files>>
    /\ pc = "pack"
    /\ estimateKind = "finite"
    /\ iteration < MAX_PAGINATION_ITERATIONS
    /\ \E st \in {PackPages(flat.contentBlocks, input.slug,
                             calculateFixedOverhead(flat.breakdown),
                             flat.breakdown, estimatedPages)} :
       LET ps == st.pages
           oversized == \E i \in 1..Len(ps) :
                           totalFromBreakdown(ps[i].breakdown) > SIZE_LIMIT
       IN  /\ iteration' = iteration + 1
           /\ pass' = [iteration |-> iteration + 1, estimate |-> estimatedPages,
                       pages |-> ps, closedBytes |-> st.closedBytes,
                       error |-> st.error]
           /\ IF st.error.code # "none"
              THEN /\ paginationResult' = PaginationFailure(st.error)
                   /\ pc' = "emit"
                   /\ UNCHANGED <<previousPageCount, estimatedPages>>
              ELSE IF Len(ps) = previousPageCount
              THEN /\ paginationResult' =
                        IF oversized
                        THEN PaginationFailure([code |-> "PAGINATION_NO_CONVERGENCE",
                                                iterations |-> iteration + 1])
                        ELSE PaginationSuccess(FixUpPages(ps, input.slug))
                   /\ pc' = "emit"
                   /\ UNCHANGED <<previousPageCount, estimatedPages>>
              ELSE /\ previousPageCount' = Len(ps)
                   /\ estimatedPages' = Len(ps)
                   /\ IF iteration + 1 < MAX_PAGINATION_ITERATIONS
                      THEN /\ pc' = "pack"
                           /\ paginationResult' = paginationResult
                      ELSE /\ pc' = "emit"
                           /\ paginationResult' = PaginationFailure(
                                 [code |-> "PAGINATION_NO_CONVERGENCE",
                                  iterations |-> MAX_PAGINATION_ITERATIONS])
    /\ UNCHANGED <<input, flat, estimateKind, navLinks, result, firstResult, now,
                   manifest, command, exitCode, ops>>

\* generatePaginationNav(baseSlug, 1, Infinity): `for (i = 1; i <= totalPages;
\* i++) links.push(...)` never leaves the loop; the links pushed are counted
\* modulo MaxNavLinks + 1
NavLoop ==
    /\ UNCHANGED <<procs, files>>
    /\ pc = "pack"
    /\ estimateKind = "Infinity"
    /\ navLinks' = (navLinks + 1) % (MaxNavLinks + 1)
    /\ UNCHANGED <<pc, input, flat, estimatedPages, estimateKind, iteration,
                   previousPageCount, paginationResult, pass, result, firstResult,
                   now, manifest, command, exitCode, ops>>

\* Emit whose page hashes cover the timestamp of the run
EmitStamped ==
    /\ UNCHANGED <<procs, files>>
    /\ pc = "emit"
    /\ result' =
          IF ~paginationResult.success
          THEN MeasuredFailure(result.timestamp, paginationResult.error,
                               input.slug, flat.breakdown)
          ELSE Apply(LAMBDA r :
                         [r EXCEPT !.pages =
                             [i \in 1..Len(r.pages) |->
                                 [r.pages[i] EXCEPT !.hash =
                                     [sha256 |-> r.pages[i].html,
                                      timestamp |-> r.timestamp]]]],
                     EmitPages(input, flat.page, paginationResult.pages,
                               result.timestamp))
    /\ pc' = "done"
    /\ UNCHANGED <<input, flat, estimatedPages, estimateKind, iteration,
                   previousPageCount, paginationResult, navLinks, pass, firstResult, now,
                   manifest, command, exitCode, ops>>

\* compile() after paginate() returned: pass the error on, or emit the pages
Emit ==
    /\ UNCHANGED <<procs, files>>
    /\ pc = "emit"
    /\ result' = IF ~paginationResult.success
                 THEN MeasuredFailure(result.timestamp, paginationResult.error,
                                      input.slug, flat.breakdown)
                 ELSE EmitPages(input, flat.page, paginationResult.pages,
                                result.timestamp)
    /\ pc' = "done"
    /\ UNCHANGED <<input, flat, estimatedPages, estimateKind, iteration,
                   previousPageCount, paginationResult, navLinks, pass, firstResult, now,
                   manifest, command, exitCode, ops>>

\* verifyDeterminism(): the second compile(input) of the same input
Recompile ==
    /\ UNCHANGED <<procs, files>>
    /\ pc = "done"
    /\ command = "verifyDeterminism"
    /\ firstResult.error.code = "pending"
    /\ firstResult' = result
    /\ result' = NoResult
    /\ pc' = "compile"
    /\ UNCHANGED <<input, flat, estimatedPages, estimateKind, iteration,
                   previousPageCount, paginationResult, navLinks, pass, now, manifest,
                   command, exitCode, ops>>

Init ==
    /\ procs = <<>>
    /\ files = <<>>
    /\ pc = "compile"
    /\ input \in Inputs
    /\ flat = NoFlat
    /\ estimatedPages = 0
    /\ estimateKind = "finite"
    /\ iteration = 0
    /\ previousPageCount = 0
    /\ paginationResult = NoPagination
    /\ pass = NoPass
    /\ navLinks = 0
    /\ result = NoResult
    /\ firstResult = NoResult
    /\ now = 0
    /\ manifest = <<>>
    /\ command = "verifyDeterminism"
    /\ exitCode = 0
    /\ ops = 0

Next == Flatten \/ PaginateStart \/ PackPass \/ NavLoop \/ Emit \/ Recompile

Spec == Init /\ [][Next]_vars

\* compile() and paginate() are synchronous code: a step that can be taken is
\* taken
FairSpec == Spec /\ WF_vars(Next)


(***************************************************************************)
(* manifest.ts                                                             *)
(***************************************************************************)
\* manifest.entries.findIndex(e => e.slug === slug), one-based; 0 for -1
findIndex(entries, slug) ==
    LET found == {i \in 1..Len(entries) : entries[i].slug = slug}
    IN  IF found = {} THEN 0 ELSE CHOOSE i \in found : \A j \in found : i <= j

canPublish(slug, entries) ==
    LET i == findIndex(entries, slug)
    IN  IF i = 0 THEN [allowed |-> TRUE, reason |-> "none"]
        ELSE IF entries[i].status = "published"
        THEN [allowed |-> FALSE, reason |-> "SLUG_EXISTS"]
        ELSE IF entries[i].status = "tombstone"
        THEN [allowed |-> FALSE, reason |-> "SLUG_TOMBSTONED"]
        ELSE [allowed |-> TRUE, reason |-> "none"]

\* addEntry that puts the new entry first
addEntryFirst(entries, entry) == <<entry>> \o entries

addEntry(entries, entry) == Append(entries, entry)

\* tombstoneEntry that stamps an entry again when it is already a tombstone
tombstoneEntryAgain(entries, slug, tombstonedAt) ==
    LET entryIndex == findIndex(entries, slug)
    IN  IF entryIndex = 0
        THEN [ok |-> FALSE, entries |-> entries]
        ELSE [ok |-> TRUE,
              entries |-> [entries EXCEPT ![entryIndex].status = "tombstone",
                                          ![entryIndex].tombstonedAt = tombstonedAt]]

\* null is [ok |-> FALSE]
tombstoneEntry(entries, slug, tombstonedAt) ==
    LET entryIndex == findIndex(entries, slug)
    IN  IF entryIndex = 0 \/ entries[entryIndex].status = "tombstone"
        THEN [ok |-> FALSE, entries |-> entries]
        ELSE [ok |-> TRUE,
              entries |-> [entries EXCEPT ![entryIndex].status = "tombstone",
                                          ![entryIndex].tombstonedAt = tombstonedAt]]

\* tombstonedAt is -1 while the field is absent
ManifestEntry(page, timestamp, title) ==
    [slug |-> page.slug, status |-> "published", publishedAt |-> timestamp,
     hash |-> page.hash, title |-> title, tombstonedAt |-> -1]

\* `for (const page of result.pages) updatedManifest = addEntry(...)`
AddEntries(entries, pages, timestamp, title) ==
    LET F[i \in 0..Len(pages)] ==
            IF i = 0 THEN entries
            ELSE addEntry(F[i - 1], ManifestEntry(pages[i], timestamp, title))
    IN  F[Len(pages)]

(***************************************************************************)
(* cli.ts: the compile and tombstone commands over one manifest file       *)
(***************************************************************************)
\* input files handed to `14kb compile`
CliContents ==
    { <<Leaf(100, 0)>>, <<Leaf(264, 0), Leaf(100, 0)>>, <<Leaf(100, 0), Leaf(340, 0)>> }

CliInputs ==
    { MakeInput(slug, m, css, content, <<>>, TRUE) :
        slug \in Slugs,
        m \in {[titleHtml |-> 16, faviconHtml |-> 0, metaHtml |-> 0,
                navigation |-> 0, footer |-> 0, iconBytes |-> 0]},
        css \in {13805, 14041}, content \in CliContents }

NoInput == MakeInput("", [titleHtml |-> TitleMarkupBytes, faviconHtml |-> 0, metaHtml |-> 0,
                          navigation |-> 0, footer |-> 0, iconBytes |-> 0],
                     0, <<>>, <<>>, FALSE)

\* runCompile() up to the call of compile()
RunCompile(inp) ==
    /\ UNCHANGED <<procs, files>>
    /\ pc = "idle"
    /\ ops < MaxOps
    /\ ops' = ops + 1
    /\ command' = "compile"
    /\ IF ~canPublish(inp.slug, manifest).allowed
       THEN /\ exitCode' = 1
            /\ UNCHANGED <<pc, input>>
       ELSE /\ input' = inp
            /\ pc' = "compile"
            /\ UNCHANGED exitCode
    /\ UNCHANGED <<flat, estimatedPages, estimateKind, iteration, previousPageCount,
                   paginationResult, navLinks, pass, result, firstResult, now, manifest>>

\* runCompile() after compile() returned: write the pages, update the manifest
FinishCompile ==
    /\ UNCHANGED <<procs, files>>
    /\ pc = "done"
    /\ command = "compile"
    /\ pc' = "idle"
    /\ IF ~result.success
       THEN /\ exitCode' = 1
            /\ UNCHANGED <<manifest, now>>
       ELSE /\ manifest' = AddEntries(manifest, result.pages, now, input.title)
            /\ now' = now + 1
            /\ exitCode' = 0
    /\ UNCHANGED <<input, flat, estimatedPages, estimateKind, iteration,
                   previousPageCount, paginationResult, navLinks, pass, result,
                   firstResult, command, ops>>

\* runTombstone()
RunTombstone(slug) ==
    /\ UNCHANGED <<procs, files>>
    /\ pc = "idle"
    /\ ops < MaxOps
    /\ ops' = ops + 1
    /\ command' = "tombstone"
    /\ now' = now + 1
    /\ LET updated == tombstoneEntry(manifest, slug, now)
       IN  /\ manifest' = updated.entries
           /\ exitCode' = IF updated.ok THEN 0 ELSE 1
    /\ UNCHANGED <<pc, input, flat, estimatedPages, estimateKind, iteration,
                   previousPageCount, paginationResult, navLinks, pass, result,
                   firstResult>>

CliInit ==
    /\ procs = <<>>
    /\ files = <<>>
    /\ pc = "idle"
    /\ input = NoInput
    /\ flat = NoFlat
    /\ estimatedPages = 0
    /\ estimateKind = "finite"
    /\ iteration = 0
    /\ previousPageCount = 0
    /\ paginationResult = NoPagination
    /\ pass = NoPass
    /\ navLinks = 0
    /\ result = NoResult
    /\ firstResult = NoResult
    /\ now = 0
    /\ manifest = <<>>
    /\ command = "none"
    /\ exitCode = 0
    /\ ops = 0

CliNext ==
    \/ \E inp \in CliInputs : RunCompile(inp)
    \/ Flatten
    \/ PaginateStart
    \/ PackPass
    \/ NavLoop
    \/ Emit
    \/ FinishCompile
    \/ \E slug \in Slugs : RunTombstone(slug)

CliSpec == CliInit /\ [][CliNext]_vars

(***************************************************************************)
(* flatten.ts on the level of text: what becomes of the characters of each *)
(* user-supplied field.  A fragment is a sequence of segments, each the    *)
(* compiler's own markup or the text emitted for a field of the input.     *)
(***************************************************************************)
\* characters of the user-supplied texts (no white space, which trim() and
\* HREF_PATTERN treat specially): a letter and characters of HTML markup
TextChars == {"a", "<", "\"", "&"}

\* the strings of at most n characters
RECURSIVE StringsUpTo(_)
StringsUpTo(n) ==
    IF n = 0 THEN {""}
    ELSE StringsUpTo(n - 1)
         \cup {s \o c : s \in StringsUpTo(n - 1), c \in TextChars}

Texts == StringsUpTo(MaxText) \ {""}

HTML_ESCAPE(char) ==
    CASE char = "&" -> "&amp;"
      [] char = "<" -> "&lt;"
      [] char = ">" -> "&gt;"
      [] char = "\"" -> "&quot;"
      [] char = "'" -> "&#39;"
      [] OTHER -> char

\* str.replace(/[&<>"']/g, (char) => HTML_ESCAPE[char])
RECURSIVE escapeHtml(_)
escapeHtml(str) ==
    IF Len(str) = 0 THEN ""
    ELSE HTML_ESCAPE(SubSeq(str, 1, 1)) \o escapeHtml(SubSeq(str, 2, Len(str)))

\* the allow-list sanitizer of the footer, for content without a complete
\* tag: everything is text
sanitizeHtml(str) == escapeHtml(str)

TokenChars == {"a"}

\* token.trim().replace(/[^a-zA-Z0-9_-]/g, '')
RECURSIVE safeToken(_)
safeToken(token) ==
    IF Len(token) = 0 THEN ""
    ELSE (IF SubSeq(token, 1, 1) \in TokenChars THEN SubSeq(token, 1, 1) ELSE "")
         \o safeToken(SubSeq(token, 2, Len(token)))

Markup(str) == [kind |-> "markup", field |-> "", str |-> str]

User(field, str) == [kind |-> "user", field |-> field, str |-> str]

\* selectorAttrs(selector, baseClasses) for a selector of one class token
selectorAttrs(field, selector, baseClasses) ==
    LET class == safeToken(selector)
    IN  IF class = "" /\ baseClasses = ""
        THEN <<>>
        ELSE <<Markup(" class=\""), User(field, escapeHtml(baseClasses \o class)),
               Markup("\"")>>

\* the field names of the texts of an input
TextFields ==
    {"title", "favicon", "description", "cssRules", "navHref", "navText",
     "footer", "text", "code", "selector", "height", "background", "rowGap",
     "className", "postSlug", "postTitle"}

\* an input all of whose texts are `a` but one
TextInputs ==
    { [f \in TextFields |-> IF f = field THEN t ELSE "a"] :
        field \in TextFields, t \in Texts }

\* the fragments flatten() renders from the texts of an input
flattenHtml(text) ==
    [title |-> <<Markup("<title>"), User("title", escapeHtml(text.title)),
                 Markup("</title>")>>,
     favicon |-> <<Markup("<link rel=\"icon\" href=\""),
                   User("favicon", text.favicon), Markup("\">")>>,
     meta |-> <<Markup("<meta name=\"description\" content=\""),
                User("description", escapeHtml(text.description)),
                Markup("\">")>>,
     css |-> <<Markup("<style>"), User("cssRules", text.cssRules),
               Markup("</style>")>>,
     navigation |-> <<Markup("<header><nav>\n<a href=\""),
                      User("navHref", escapeHtml(text.navHref)), Markup("\">"),
                      User("navText", escapeHtml(text.navText)),
                      Markup("</a>\n</nav></header>")>>,
     footer |-> <<Markup("<footer>"), User("footer", sanitizeHtml(text.footer)),
                  Markup("</footer>")>>,
     paragraph |-> <<Markup("<p")>> \o selectorAttrs("selector", text.selector, "")
                   \o <<Markup(">"), User("text", escapeHtml(text.text)),
                        Markup("</p>")>>,
     codeblock |-> <<Markup("<pre><code>"), User("code", escapeHtml(text.code)),
                     Markup("</code></pre>")>>,
     spacer |-> <<Markup("<div style=\"height:"), User("height", text.height),
                  Markup("\"></div>")>>,
     section |-> <<Markup("<section style=\"--sb:"),
                   User("background", text.background),
                   Markup("\"></section>")>>,
     layout |-> <<Markup("<div")>>
                \o selectorAttrs("className", text.className, "layout ")
                \o <<Markup(" style=\"display:inline-grid;width:fit-content;max-width:100%;gap:"),
                     User("rowGap", text.rowGap), Markup(" 0\"></div>")>>,
     post |-> <<Markup("<li class=\"post\"><a href=\"/"),
                User("postSlug", escapeHtml(text.postSlug)), Markup("\">"),
                User("postTitle", escapeHtml(text.postTitle)),
                Markup("</a> - <time></time></li>")>>]

\* flatten(): the fragments are rendered from the texts of the input
FlattenText ==
    /\ UNCHANGED <<procs, files>>
    /\ pc = "flatten"
    /\ flat' = [NoFlat EXCEPT !.page = flattenHtml(input)]
    /\ pc' = "flattened"
    /\ UNCHANGED <<input, estimatedPages, estimateKind, iteration,
                   previousPageCount, paginationResult, navLinks, pass, result,
                   firstResult, now, manifest, command, exitCode, ops>>

TextInit ==
    /\ procs = <<>>
    /\ files = <<>>
    /\ pc = "flatten"
    /\ input \in TextInputs
    /\ flat = NoFlat
    /\ estimatedPages = 0
    /\ estimateKind = "finite"
    /\ iteration = 0
    /\ previousPageCount = 0
    /\ paginationResult = NoPagination
    /\ pass = NoPass
    /\ navLinks = 0
    /\ result = NoResult
    /\ firstResult = NoResult
    /\ now = 0
    /\ manifest = <<>>
    /\ command = "none"
    /\ exitCode = 0
    /\ ops = 0

TextNext == FlattenText

TextSpec == TextInit /\ [][TextNext]_vars

(***************************************************************************)
(* Class mangling: the class names flatten() and paginate() write into the *)
(* markup, and what mangleCssClassSelectors makes of the user's CSS.       *)
(***************************************************************************)
MaxSelectors == 2    \* class selectors per user style sheet

\* the characters [a-zA-Z0-9_-] of the selector pattern's lookahead
ClassNameChars ==
    SlugChars \cup
    {"_", "A", "B", "C", "D", "E", "F", "G", "H", "I", "J", "K", "L", "M", "N",
     "O", "P", "Q", "R", "S", "T", "U", "V", "W", "X", "Y", "Z"}

\* Object.entries() of the class maps: <<fromClass, toClass>> in insertion order
SAFE_GENERATED_CLASS_MAP ==
    << <<"layout", "l">>, <<"cell", "c">>, <<"bg-pattern-dots", "pd">>,
       <<"bg-pattern-grid", "pg">>, <<"bg-pattern-stripes", "ps">>,
       <<"bg-pattern-cross", "pc">>, <<"bg-pattern-hexagons", "ph">> >>

AGGRESSIVE_GENERATED_CLASS_MAP ==
    SAFE_GENERATED_CLASS_MAP \o
    << <<"pagination", "p">>, <<"posts", "s">>, <<"post", "t">>,
       <<"archive-link", "al">>, <<"end-of-list", "el">>, <<"empty", "e">> >>

normalizeClassManglingMode(enabled, mode) ==
    IF ~enabled THEN "safe"
    ELSE IF mode = "aggressive" THEN "aggressive" ELSE "safe"

getGeneratedClassMap(mode) ==
    IF mode = "aggressive" THEN AGGRESSIVE_GENERATED_CLASS_MAP
    ELSE SAFE_GENERATED_CLASS_MAP

\* classMap[className] || className
mangleGeneratedClass(className, enabled, mode) ==
    IF ~enabled THEN className
    ELSE LET classMap == getGeneratedClassMap(mode)
             hits == {i \in 1..Len(classMap) : classMap[i][1] = className}
         IN  IF hits = {} THEN className
             ELSE classMap[CHOOSE i \in hits : TRUE][2]

\* css.replace(new RegExp(`\\.${fromClass}(?![a-zA-Z0-9_-])`, 'g'), replacement)
RECURSIVE replaceSelector(_, _, _)
replaceSelector(css, fromClass, replacement) ==
    LET n == Len(fromClass) + 1
    IN  IF Len(css) = 0 THEN ""
        ELSE IF /\ Len(css) >= n
                /\ SubSeq(css, 1, n) = "." \o fromClass
                /\ \/ Len(css) = n
                   \/ SubSeq(css, n + 1, n + 1) \notin ClassNameChars
        THEN replacement
             \o replaceSelector(SubSeq(css, n + 1, Len(css)), fromClass, replacement)
        ELSE SubSeq(css, 1, 1)
             \o replaceSelector(SubSeq(css, 2, Len(css)), fromClass, replacement)

mangleCssClassSelectors(css, enabled, mode) ==
    IF css = "" THEN css
    ELSE LET classMap == getGeneratedClassMap(mode)
             F[i \in 0..Len(classMap)] ==
                 IF i = 0 THEN replaceSelector(css, "section", "section")
                 ELSE Apply(LAMBDA mangled :
                                replaceSelector(mangled, classMap[i][1],
                                                "." \o classMap[i][2]),
                            F[i - 1])
         IN  IF ~enabled THEN F[0] ELSE F[Len(classMap)]

\* classes written by flatten(): layout, cell and pattern classes of layout
\* and section blocks, and the classes of a rendered post feed
FlattenClasses ==
    {"layout", "cell", "bg-pattern-dots", "bg-pattern-grid", "bg-pattern-stripes",
     "bg-pattern-cross", "bg-pattern-hexagons", "posts", "post", "archive-link",
     "end-of-list", "empty"}

\* classes written by paginate(): the navigation fragment and the wrapper of
\* a run of feed items
PaginateClasses == {"pagination", "posts"}

\* class names of the selectors in the user's style sheets: the generated
\* names, names that begin with one, and the names mangling produces
SelectorNames ==
    FlattenClasses \cup PaginateClasses \cup {"post-x", "layouts", "l", "e"}

\* `.name{}` for each selector, as one string
RECURSIVE StyleSheet(_)
StyleSheet(selectors) ==
    IF selectors = <<>> THEN ""
    ELSE "." \o Head(selectors) \o "{}" \o StyleSheet(Tail(selectors))

ClassInputs ==
    [classMangling : BOOLEAN,
     classManglingMode : {"undefined", "safe", "aggressive"},
     selectors : SeqsUpTo(SelectorNames, MaxSelectors)]

\* flatten(): the style sheet and the classes of the rendered blocks
FlattenMangled ==
    /\ UNCHANGED <<procs, files>>
    /\ pc = "flatten"
    /\ LET classManglingEnabled == input.classMangling
           classManglingMode ==
               normalizeClassManglingMode(classManglingEnabled,
                                          input.classManglingMode)
       IN  flat' = [NoFlat EXCEPT !.page =
                      [css |-> mangleCssClassSelectors(StyleSheet(input.selectors),
                                                       classManglingEnabled,
                                                       classManglingMode),
                       classes |-> [name \in FlattenClasses |->
                                       mangleGeneratedClass(name,
                                                            classManglingEnabled,
                                                            classManglingMode)]]]
    /\ pc' = "paginate"
    /\ UNCHANGED <<input, estimatedPages, estimateKind, iteration,
                   previousPageCount, paginationResult, navLinks, pass, result,
                   firstResult, now, manifest, command, exitCode, ops>>

\* paginate(): `<div class="pagination">` and `<ul class="posts">` are
\* literals of paginate.ts, which is not told about class mangling
PaginateLiteral ==
    /\ UNCHANGED <<procs, files>>
    /\ pc = "paginate"
    /\ "classes" \in DOMAIN flat.page
    /\ paginationResult' =
          [success |-> TRUE, pages |-> <<>>, error |-> [code |-> "none"],
           classes |-> [name \in PaginateClasses |-> name]]
    /\ pc' = "emit"
    /\ UNCHANGED <<input, flat, estimatedPages, estimateKind, iteration,
                   previousPageCount, navLinks, pass, result, firstResult, now,
                   manifest, command, exitCode, ops>>

ClassInit ==
    /\ procs = <<>>
    /\ files = <<>>
    /\ pc = "flatten"
    /\ input \in ClassInputs
    /\ flat = NoFlat
    /\ estimatedPages = 0
    /\ estimateKind = "finite"
    /\ iteration = 0
    /\ previousPageCount = 0
    /\ paginationResult = NoPagination
    /\ pass = NoPass
    /\ navLinks = 0
    /\ result = NoResult
    /\ firstResult = NoResult
    /\ now = 0
    /\ manifest = <<>>
    /\ command = "none"
    /\ exitCode = 0
    /\ ops = 0

ClassNext == FlattenMangled \/ PaginateLiteral

ClassSpec == ClassInit /\ [][ClassNext]_vars

(***************************************************************************)
(* cli.ts: two `14kb compile` processes over one manifest file and one     *)
(* output directory.  Each process reads and writes the files at its own   *)
(* pace; compile() touches no file, so the processes take turns at it.     *)
(***************************************************************************)
Procs == {1, 2}

\* input files of the two runs: one slug, any of the contents
RaceInputs ==
    { MakeInput("a", [titleHtml |-> 16, faviconHtml |-> 0, metaHtml |-> 0,
                      navigation |-> 0, footer |-> 0, iconBytes |-> 0],
                13805, content, <<>>, TRUE) : content \in CliContents }

\* a process before its first step; exitCode and timestamp are -1 until set
NewProc(inp) ==
    [at |-> "start", input |-> inp, manifest |-> <<>>, result |-> NoResult,
     timestamp |-> -1, exitCode |-> -1]

\* loadManifest() and canPublish(): the process reads manifest.json and gives
\* up when the slug has an entry
LoadManifest(p) ==
    /\ procs[p].at = "start"
    /\ procs' = [procs EXCEPT
                    ![p].manifest = manifest,
                    ![p].at = IF canPublish(procs[p].input.slug, manifest).allowed
                              THEN "loaded" ELSE "exited",
                    ![p].exitCode = IF canPublish(procs[p].input.slug,
                                                  manifest).allowed
                                    THEN -1 ELSE 1]
    /\ UNCHANGED <<pc, input, flat, estimatedPages, estimateKind, iteration,
                   previousPageCount, paginationResult, pass, navLinks, result,
                   firstResult, now, manifest, command, exitCode, ops, files>>

\* the call of compile(input)
CompileInput(p) ==
    /\ procs[p].at = "loaded"
    /\ pc = "idle"
    /\ input' = procs[p].input
    /\ pc' = "compile"
    /\ procs' = [procs EXCEPT ![p].at = "compiling"]
    /\ UNCHANGED <<flat, estimatedPages, estimateKind, iteration,
                   previousPageCount, paginationResult, pass, navLinks, result,
                   firstResult, now, manifest, command, exitCode, ops, files>>

\* compile() returned: a failed compilation ends the run
CompileReturned(p) ==
    /\ procs[p].at = "compiling"
    /\ pc = "done"
    /\ pc' = "idle"
    /\ procs' = [procs EXCEPT
                    ![p].result = result,
                    ![p].at = IF result.success THEN "compiled" ELSE "exited",
                    ![p].exitCode = IF result.success THEN -1 ELSE 1]
    /\ UNCHANGED <<input, flat, estimatedPages, estimateKind, iteration,
                   previousPageCount, paginationResult, pass, navLinks, result,
                   firstResult, now, manifest, command, exitCode, ops, files>>

\* `for (const page of result.pages) await writeFile(outputPath, page.html)`
WritePages(p) ==
    /\ procs[p].at = "compiled"
    /\ files' = files \o [i \in 1..Len(procs[p].result.pages) |->
                            [path |-> procs[p].result.pages[i].slug \o ".html",
                             html |-> procs[p].result.pages[i].html, by |-> p]]
    /\ procs' = [procs EXCEPT ![p].at = "written"]
    /\ UNCHANGED <<pc, input, flat, estimatedPages, estimateKind, iteration,
                   previousPageCount, paginationResult, pass, navLinks, result,
                   firstResult, now, manifest, command, exitCode, ops>>

\* the entries are added to the manifest the process loaded, and the file is
\* replaced by the result
SaveManifest(p) ==
    /\ procs[p].at = "written"
    /\ manifest' = AddEntries(procs[p].manifest, procs[p].result.pages, now,
                              procs[p].input.title)
    /\ now' = now + 1
    /\ procs' = [procs EXCEPT ![p].at = "exited", ![p].timestamp = now,
                              ![p].exitCode = 0]
    /\ UNCHANGED <<pc, input, flat, estimatedPages, estimateKind, iteration,
                   previousPageCount, paginationResult, pass, navLinks, result,
                   firstResult, command, exitCode, ops, files>>

RaceInit ==
    /\ pc = "idle"
    /\ input = NoInput
    /\ flat = NoFlat
    /\ estimatedPages = 0
    /\ estimateKind = "finite"
    /\ iteration = 0
    /\ previousPageCount = 0
    /\ paginationResult = NoPagination
    /\ pass = NoPass
    /\ navLinks = 0
    /\ result = NoResult
    /\ firstResult = NoResult
    /\ now = 0
    /\ manifest = <<>>
    /\ command = "compile"
    /\ exitCode = 0
    /\ ops = 0
    /\ procs \in [Procs -> {NewProc(inp) : inp \in RaceInputs}]
    /\ files = <<>>

RaceNext ==
    \/ \E p \in Procs : LoadManifest(p)
    \/ \E p \in Procs : CompileInput(p)
    \/ Flatten
    \/ PaginateStart
    \/ PackPass
    \/ Emit
    \/ \E p \in Procs : CompileReturned(p)
    \/ \E p \in Procs : WritePages(p)
    \/ \E p \in Procs : SaveManifest(p)

RaceSpec == RaceInit /\ [][RaceNext]_vars

(***************************************************************************)
(* validate.ts on the level of text: validateCss over the characters of    *)
(* css.rules.                                                              *)
(***************************************************************************)
MaxCssText == 4      \* characters per css.rules string

\* characters of css.rules: the two braces and a character that is neither
CssChars == {"a", "{", "}"}

\* the strings of at most n characters of CSS
RECURSIVE CssStringsUpTo(_)
CssStringsUpTo(n) ==
    IF n = 0 THEN {""}
    ELSE CssStringsUpTo(n - 1)
         \cup {s \o c : s \in CssStringsUpTo(n - 1), c \in CssChars}

CssTexts == CssStringsUpTo(MaxCssText)

\* `for (let i = 0; i < rules.length; i++)` from index i on with the given
\* braceCount, and the test that follows the loop
RECURSIVE checkBraces(_, _, _)
checkBraces(rules, i, braceCount) ==
    IF i >= Len(rules)
    THEN IF braceCount # 0
         THEN Invalid([code |-> "CSS_PARSE_ERROR", offset |-> Len(rules),
                       message |-> "Unbalanced braces"])
         ELSE Valid
    ELSE LET char == SubSeq(rules, i + 1, i + 1)
             count == braceCount + (IF char = "{" THEN 1 ELSE 0)
                      - (IF char = "}" THEN 1 ELSE 0)
         IN  IF count < 0
             THEN Invalid([code |-> "CSS_PARSE_ERROR", offset |-> i,
                           message |-> "Unexpected closing brace"])
             ELSE checkBraces(rules, i + 1, count)

\* validateCss that compares the totals only, after the loop
validateCssTextTotalsOnly(rules) ==
    LET braces == [c \in {"{", "}"} |->
                     Cardinality({j \in 1..Len(rules) : SubSeq(rules, j, j) = c})]
    IN  IF braces["{"] # braces["}"]
        THEN Invalid([code |-> "CSS_PARSE_ERROR", offset |-> Len(rules),
                      message |-> "Unbalanced braces"])
        ELSE Valid

\* validateCss(css) for css.rules given as a string
validateCssText(rules) == checkBraces(rules, 0, 0)

\* validateInput reaches validateCss with the rules of the input
ValidateCssText ==
    /\ UNCHANGED <<procs, files>>
    /\ pc = "validate"
    /\ result' = validateCssText(input.cssRules)
    /\ pc' = "validated"
    /\ UNCHANGED <<input, flat, estimatedPages, estimateKind, iteration,
                   previousPageCount, paginationResult, navLinks, pass,
                   firstResult, now, manifest, command, exitCode, ops>>

CssInit ==
    /\ procs = <<>>
    /\ files = <<>>
    /\ pc = "validate"
    /\ input \in {[cssRules |-> rules] : rules \in CssTexts}
    /\ flat = NoFlat
    /\ estimatedPages = 0
    /\ estimateKind = "finite"
    /\ iteration = 0
    /\ previousPageCount = 0
    /\ paginationResult = NoPagination
    /\ pass = NoPass
    /\ navLinks = 0
    /\ result = NoResult
    /\ firstResult = NoResult
    /\ now = 0
    /\ manifest = <<>>
    /\ command = "none"
    /\ exitCode = 0
    /\ ops = 0

CssNext == ValidateCssText

CssSpec == CssInit /\ [][CssNext]_vars

(***************************************************************************)
(* Properties                                                              *)
(***************************************************************************)
Done == pc = "done"

Succeeded == Done /\ result.success

Failed(code) == Done /\ ~result.success /\ result.error.code = code

\* C1: every page of a successful compile result is at most SIZE_LIMIT bytes
\* long, its reported byte length being the exact size of its final HTML.
C1_PagesWithinLimit ==
    Succeeded =>
        \A i \in 1..Len(result.pages) :
            /\ result.pages[i].bytes = HtmlBytes(result.pages[i].html)
            /\ result.pages[i].bytes <= SIZE_LIMIT

\* a paginated success one of whose pages fills the limit to the last byte
C1_Witness ==
    /\ Succeeded
    /\ Len(result.pages) >= 2
    /\ \E i \in 1..Len(result.pages) : result.pages[i].bytes = SIZE_LIMIT

\* C2: whenever paginate succeeds, concatenating the block lists of its pages
\* in page order gives exactly the flattened block sequence, and no page is
\* empty (nothing dropped, duplicated, reordered or split).
C2_PagesPartitionBlocks ==
    paginationResult.success =>
        /\ Flat([i \in 1..Len(paginationResult.pages) |->
                    paginationResult.pages[i].contentBlocks]) = flat.contentBlocks
        /\ \A i \in 1..Len(paginationResult.pages) :
               paginationResult.pages[i].contentBlocks # <<>>

\* paginate split at least four blocks over several pages, one of them
\* holding more than one block
C2_Witness ==
    /\ paginationResult.success
    /\ Len(paginationResult.pages) >= 2
    /\ Len(flat.contentBlocks) >= 4
    /\ \E i \in 1..Len(paginationResult.pages) :
           Len(paginationResult.pages[i].contentBlocks) >= 2

\* byte length of the document holding all flattened blocks on one page
SinglePageBytes ==
    HtmlBytes(assemblePageWithContent(flat.page,
                                      assembleContentHtml(flat.contentBlocks), <<>>))

\* the input was flattened and its single page is over the limit
DoesNotFit == flat # NoFlat /\ SinglePageBytes > SIZE_LIMIT

\* the estimate paginate() starts from
Seed ==
    seedEstimate(totalContentWithNewlines(flat.contentBlocks),
                 calculateFixedOverhead(flat.breakdown))

\* numbers of pages a packing pass can assume: from two up to the seed
\* estimate or the number of blocks
PageCounts == 2..Max(Seed.pages, Len(flat.contentBlocks))

\* availableBudget of page k out of n
PageBudget(k, n) ==
    SIZE_LIMIT - calculateFixedOverhead(flat.breakdown)
    - calculatePaginationBytes(input.slug, k, n)

\* the block, with the list wrapper an item needs, fits every page's budget
FitsAlone(block) ==
    /\ Seed.kind = "finite"
    /\ \A n \in PageCounts : \A k \in 1..n :
        block.bytes + (IF block.blockType = "bloglist-item"
                       THEN BLOGLIST_WRAPPER_BYTES ELSE 0) <= PageBudget(k, n)

\* the block's own size exceeds the budget of every page
ExceedsBudget(block) ==
    \A n \in PageCounts : \A k \in 1..n : block.bytes > PageBudget(k, n)

\* C3: with allowPagination, content that does not fit on one page and whose
\* every block alone fits the per-page budget compiles to at least two pages,
\* each of at most SIZE_LIMIT bytes.
C3_PaginatedCompileSucceeds ==
    ( /\ Done
      /\ input.allowPagination
      /\ DoesNotFit
      /\ \A i \in 1..Len(flat.contentBlocks) : FitsAlone(flat.contentBlocks[i]) )
    => /\ result.success
       /\ Len(result.pages) >= 2
       /\ \A i \in 1..Len(result.pages) : result.pages[i].bytes <= SIZE_LIMIT

\* C4: without allowPagination, content that does not fit on one page fails
\* with SIZE_LIMIT_EXCEEDED whose measured value exceeds its limit, SIZE_LIMIT.
C4_OversizeFailsWithSizeLimit ==
    (Done /\ ~input.allowPagination /\ DoesNotFit)
    => /\ Failed("SIZE_LIMIT_EXCEEDED")
       /\ result.error.limit = SIZE_LIMIT
       /\ result.error.measured > result.error.limit

\* C5: with allowPagination, when some flattened block alone exceeds the
\* budget of every page, the compile fails with PAGINATION_BLOCK_TOO_LARGE whose
\* blockIndex is the source index of a block larger than the reported budget,
\* whatever the position of the block.
C5_OversizedBlockReported ==
    ( /\ Done
      /\ input.allowPagination
      /\ DoesNotFit
      /\ \E i \in 1..Len(flat.contentBlocks) : ExceedsBudget(flat.contentBlocks[i]) )
    => /\ Failed("PAGINATION_BLOCK_TOO_LARGE")
       /\ \E i \in 1..Len(flat.contentBlocks) :
             /\ flat.contentBlocks[i].bytes > result.error.availableBudget
             /\ result.error.blockIndex = flat.contentBlocks[i].sourceIndex

\* C6: paginate terminates with a result for every input, after at most
\* MAX_PAGINATION_ITERATIONS packing passes: every call of paginate() is
\* followed by its return.
C6_PaginateTerminates ==
    /\ [](iteration <= MAX_PAGINATION_ITERATIONS)
    /\ (pc = "paginate") ~> (pc = "emit")

\* C7: for every page of a successful compile, the sum of the breakdown
\* categories reported for the page equals the byte length of its final HTML.
C7_BreakdownSumsToBytes ==
    Succeeded =>
        \A i \in 1..Len(result.pages) :
            totalFromBreakdown(result.measurements[i].breakdown)
                = result.pages[i].bytes

\* the second compile() of verifyDeterminism() has returned
SecondRunDone == Done /\ firstResult.error.code # "pending"

C9_PagesNumberedInOrder ==
    Succeeded =>
        LET n == Len(result.pages)
        IN  /\ result.totals.pageCount = n
            /\ \A k \in 1..n :
                  /\ result.pages[k].pageNumber = k
                  /\ result.pages[k].totalPages = n
                  /\ result.pages[k].slug =
                        IF k = 1 THEN input.slug
                        ELSE input.slug \o "-" \o ToString(k)

\* a success with at least three pages
C9_Witness == Succeeded /\ Len(result.pages) >= 3

\* C10: after any sequence of CLI compile and tombstone commands from an empty
\* manifest, no slug appears in two manifest entries: a slug that has an
\* entry, published or tombstoned, is never published again.
C10_NoSlugInTwoEntries ==
    \A i, j \in 1..Len(manifest) :
        i # j => manifest[i].slug # manifest[j].slug

\* C11: paginate reports PAGINATION_NO_CONVERGENCE only when the iteration
\* bound is exhausted: after MAX_PAGINATION_ITERATIONS passes, with iterations
\* equal to MAX_PAGINATION_ITERATIONS.
C11_NoConvergenceOnlyAtBound ==
    paginationResult.error.code = "PAGINATION_NO_CONVERGENCE" =>
        /\ iteration = MAX_PAGINATION_ITERATIONS
        /\ paginationResult.error.iterations = MAX_PAGINATION_ITERATIONS

\* paginate() has returned
PaginateReturned == pc = "emit"

\* fixed overhead plus the content of one page holding every block: the
\* blocks, one separator between adjacent parts, one wrapper per run of items
FitsOnePage ==
    calculateFixedOverhead(flat.breakdown)
    + ContentHtmlBytes(assembleContentHtml(flat.contentBlocks)) <= SIZE_LIMIT

\* C12: when fixed overhead plus total content bytes (blocks, separators, one
\* wrapper per bloglist-item run) is at most SIZE_LIMIT, paginate returns
\* exactly one page holding all blocks in order, with empty pagination HTML and
\* a pagination breakdown of 0, whether allowPagination is true or false.
C12_FittingContentIsOnePage ==
    (PaginateReturned /\ FitsOnePage) =>
        /\ paginationResult.success
        /\ Len(paginationResult.pages) = 1
        /\ paginationResult.pages[1].pageNumber = 1
        /\ paginationResult.pages[1].contentBlocks = flat.contentBlocks
        /\ paginationResult.pages[1].paginationHtml = <<>>
        /\ paginationResult.pages[1].breakdown.pagination = 0

\* pagination is off and a run of several feed items fits one page only
\* because its wrapper is charged once
C12_Witness ==
    /\ PaginateReturned
    /\ FitsOnePage
    /\ ~input.allowPagination
    /\ calculateFixedOverhead(flat.breakdown)
       + ContentHtmlBytes(assembleContentHtml(flat.contentBlocks))
       + BLOGLIST_WRAPPER_BYTES > SIZE_LIMIT
    /\ \E i \in 1..(Len(flat.contentBlocks) - 1) :
          /\ flat.contentBlocks[i].blockType = "bloglist-item"
          /\ flat.contentBlocks[i + 1].blockType = "bloglist-item"

\* C13: when paginate succeeds with n >= 2 pages, every page k carries a
\* non-empty pagination fragment of exactly n entries, entry k being the
\* current-page marker and every other entry i linking to the file of the
\* page i that compile produces.
C13_NavListsProducedPages ==
    (paginationResult.success /\ Len(paginationResult.pages) >= 2) =>
        LET n == Len(paginationResult.pages)
        IN  \A k \in 1..n :
                LET nav == paginationResult.pages[k].paginationHtml
                IN  /\ nav # <<>>
                    /\ Len(nav) = n
                    /\ paginationResult.pages[k].breakdown.pagination
                          = NavHtmlBytes(nav)
                    /\ \A i \in 1..n :
                          /\ nav[i].page = i
                          /\ nav[i].current = (i = k)
                          /\ i # k => nav[i].href =
                                paginatedSlug(input.slug, i) \o ".html"

\* paginate succeeded with three pages after a pass that assumed another count
C13_Witness ==
    /\ paginationResult.success
    /\ Len(paginationResult.pages) >= 3
    /\ iteration >= 2

IsItem(block) == block.blockType = "bloglist-item"

\* C14: on every page produced by paginate, each maximal contiguous run of
\* bloglist-item blocks of the page is enclosed in exactly one list wrapper
\* holding exactly those items in order, also when the run continues from the
\* previous page; every other block stands outside any wrapper.
C14_ItemRunsWrappedOnce ==
    paginationResult.success =>
        \A k \in 1..Len(paginationResult.pages) :
            LET parts == paginationResult.pages[k].contentHtml
                blocks == paginationResult.pages[k].contentBlocks
            IN  /\ Flat([i \in 1..Len(parts) |-> parts[i].blocks]) = blocks
                /\ \A i \in 1..Len(parts) :
                      /\ parts[i].blocks # <<>>
                      /\ \A j \in 1..Len(parts[i].blocks) :
                            IsItem(parts[i].blocks[j]) = parts[i].wrapped
                      /\ ~parts[i].wrapped => Len(parts[i].blocks) = 1
                /\ \A i \in 1..(Len(parts) - 1) :
                      ~(parts[i].wrapped /\ parts[i + 1].wrapped)

\* a feed is split: a page ends inside a run of items, the next page starts
\* with the rest of the run, and one of the two holds several items
C14_Witness ==
    /\ paginationResult.success
    /\ \E k \in 1..(Len(paginationResult.pages) - 1) :
          LET a == paginationResult.pages[k].contentBlocks
              b == paginationResult.pages[k + 1].contentBlocks
          IN  /\ IsItem(a[Len(a)])
              /\ IsItem(b[1])
              /\ a[Len(a)].sourceIndex = b[1].sourceIndex
              /\ \/ (Len(a) >= 2 /\ IsItem(a[Len(a) - 1]))
                 \/ (Len(b) >= 2 /\ IsItem(b[2]))

\* blocks whose size alone exceeds SIZE_LIMIT minus the fixed overhead
OverBudget ==
    {i \in 1..Len(flat.contentBlocks) :
        flat.contentBlocks[i].bytes
            > SIZE_LIMIT - calculateFixedOverhead(flat.breakdown)}

\* C15: in the SIZE_LIMIT_EXCEEDED error of a compile without pagination,
\* oversizedBlock is present exactly when some flattened block alone exceeds
\* SIZE_LIMIT minus the fixed overhead, and then carries the source index and
\* size of the first such block in document order.
C15_FirstOversizedBlockReported ==
    (Failed("SIZE_LIMIT_EXCEEDED") /\ ~input.allowPagination) =>
        LET ob == result.error.oversizedBlock
        IN  /\ ob.defined = (OverBudget # {})
            /\ OverBudget # {} =>
                  \E i \in OverBudget :
                      /\ \A j \in OverBudget : i <= j
                      /\ ob.index = flat.contentBlocks[i].sourceIndex
                      /\ ob.size = flat.contentBlocks[i].bytes

\* two blocks of different size and source index exceed the budget
C15_Witness ==
    /\ Failed("SIZE_LIMIT_EXCEEDED")
    /\ ~input.allowPagination
    /\ result.error.oversizedBlock.defined
    /\ \E i, j \in OverBudget :
          /\ i < j
          /\ flat.contentBlocks[i].bytes # flat.contentBlocks[j].bytes
          /\ flat.contentBlocks[i].sourceIndex # flat.contentBlocks[j].sourceIndex

\* the first manifest entry of every slug a tombstone command may name is
\* missing or already a tombstone
NothingToTombstone ==
    \A slug \in Slugs :
        \/ findIndex(manifest, slug) = 0
        \/ manifest[findIndex(manifest, slug)].status = "tombstone"

\* C17: over any sequence of manifest operations an entry's status only moves
\* from published to tombstone and its tombstone timestamp is set at most once:
\* a tombstoned entry stays a tombstone with the timestamp it has, and a
\* tombstone command whose slug has no entry or an already tombstoned entry
\* fails and leaves the manifest as it is.
C17_TombstoneIsFinal ==
    [][ /\ \A i \in 1..Len(manifest) :
              /\ i <= Len(manifest')
              /\ manifest[i].status = "tombstone" =>
                    /\ manifest'[i].status = "tombstone"
                    /\ manifest'[i].tombstonedAt = manifest[i].tombstonedAt
              /\ manifest'[i].status = "published" =>
                    /\ manifest[i].status = "published"
                    /\ manifest'[i].tombstonedAt = manifest[i].tombstonedAt
        /\ (ops' # ops /\ command' = "tombstone" /\ NothingToTombstone) =>
              /\ manifest' = manifest
              /\ exitCode' = 1 ]_vars

\* a tombstone command has just failed on a manifest that holds a tombstone
\* and a published entry
C17_Witness ==
    /\ pc = "idle"
    /\ command = "tombstone"
    /\ exitCode = 1
    /\ \E i, j \in 1..Len(manifest) :
          /\ manifest[i].status = "tombstone"
          /\ manifest[i].tombstonedAt >= 0
          /\ manifest[j].status = "published"

\* C18: the manifest is append-only with immutable order: after any operation
\* the earlier list of entries is a prefix of the later one by slug,
\* publishedAt, hash and title; no entry is removed or moved, and a command
\* that shortens nothing changes at most status and tombstonedAt in place.
C18_ManifestAppendOnly ==
    [][ /\ Len(manifest') >= Len(manifest)
        /\ \A i \in 1..Len(manifest) :
              /\ manifest'[i].slug = manifest[i].slug
              /\ manifest'[i].publishedAt = manifest[i].publishedAt
              /\ manifest'[i].hash = manifest[i].hash
              /\ manifest'[i].title = manifest[i].title ]_vars

\* entries of two compile commands with a tombstone that is not the last entry
C18_Witness ==
    /\ Len(manifest) >= 3
    /\ \E i, j \in 1..Len(manifest) :
          /\ i < j
          /\ manifest[i].status = "tombstone"
          /\ manifest[i].publishedAt # manifest[j].publishedAt
          /\ manifest[i].slug # manifest[j].slug

\* a packing pass is about to run with a finite estimate
Packing == pc = "pack" /\ estimateKind = "finite"

Checks(inp) ==
    << validateSlug(inp.slug), validateTitle(inp.title),
       validateContent(inp.content),
       IF inp.navigation > 0 THEN validateNavigation(inp.navItems) ELSE Valid,
       IF inp.footer > 0 THEN validateFooter(inp.footerContentIsString) ELSE Valid,
       IF inp.cssHtml > 0 THEN validateCss(inp.cssRules) ELSE Valid,
       IF inp.metaHtml > 0 THEN validateMeta(inp.meta) ELSE Valid,
       validateIcons(inp.icons) >>

FailingChecks(inp) == {i \in 1..Len(Checks(inp)) : ~Checks(inp)[i].valid}

\* C19: compile validates before anything else: when validateInput rejects the
\* input, compile fails with exactly the error of the first failing check in
\* the order slug, title, content, navigation, footer, css, meta, icons, with
\* no pages and no partial measurements, and nothing is flattened or
\* paginated.
C19_ValidationErrorReturnedFirst ==
    (Done /\ FailingChecks(input) # {}) =>
        /\ ~result.success
        /\ \E i \in FailingChecks(input) :
              /\ \A j \in FailingChecks(input) : i <= j
              /\ result.error = Checks(input)[i].error
        /\ result.pages = <<>>
        /\ result.measurements = <<>>
        /\ ~result.partialMeasurements.defined
        /\ flat = NoFlat
        /\ paginationResult = NoPagination

\* an input whose slug and every later field are broken was rejected for its
\* slug
C19_Witness ==
    /\ Done
    /\ Cardinality(FailingChecks(input)) = Len(Checks(input))
    /\ result.error.code = "INVALID_SLUG"

\* the character references escapeHtml produces
Entities == {"&amp;", "&lt;", "&gt;", "&quot;", "&#39;"}

\* no character of str is HTML markup: no angle bracket or quote, and every
\* ampersand starts a character reference
IsEscaped(str) ==
    \A i \in 1..Len(str) :
        LET char == SubSeq(str, i, i)
        IN  /\ char \notin {"<", ">", "\"", "'"}
            /\ char = "&" =>
                  \E e \in Entities :
                      /\ i + Len(e) - 1 <= Len(str)
                      /\ SubSeq(str, i, i + Len(e) - 1) = e

\* C16: every user-supplied field that reaches the output HTML (title, meta,
\* favicon, navigation text and hrefs, block text, selectors and class names,
\* style values such as spacer height, section colours and gaps, CSS rules,
\* post fields) is HTML-escaped before emission, the footer alone going through
\* the sanitizer; no untrusted field is interpolated raw.
C16_UserTextIsEscaped ==
    pc = "flattened" =>
        \A fragment \in DOMAIN flat.page :
            \A i \in 1..Len(flat.page[fragment]) :
                LET segment == flat.page[fragment][i]
                IN  (segment.kind = "user" /\ segment.field # "footer")
                        => IsEscaped(segment.str)

\* the fragments of a document in their fixed order
DocumentOrder ==
    <<"doctype", "htmlOpen", "head", "bodyOpen", "navigation", "mainOpen",
      "content", "pagination", "mainClose", "footer", "bodyClose", "htmlClose">>

\* byte length of each fragment of page k as flatten and paginate produced it
FragmentBytes(k) ==
    [name \in {DocumentOrder[i] : i \in 1..Len(DocumentOrder)} |->
        CASE name = "content" ->
                 ContentHtmlBytes(paginationResult.pages[k].contentHtml)
          [] name = "pagination" ->
                 NavHtmlBytes(paginationResult.pages[k].paginationHtml)
          [] OTHER -> flat.page[name]]

\* the fragments of DocumentOrder that are not empty on page k, in order
RECURSIVE NonEmptyFragments(_, _)
NonEmptyFragments(k, i) ==
    IF i = 0 THEN <<>>
    ELSE NonEmptyFragments(k, i - 1)
         \o (IF FragmentBytes(k)[DocumentOrder[i]] > 0
             THEN <<Fragment(DocumentOrder[i], FragmentBytes(k)[DocumentOrder[i]])>>
             ELSE <<>>)

\* C21: the assembled document consists of the fragments in the fixed order
\* doctype, html-open, head, body-open, navigation, main-open, page content,
\* pagination-nav, main-close, footer, body-close, html-close, joined by single
\* line feeds; only navigation, content, pagination-nav and footer are left
\* out, and only when empty; the structural fragments are on every page.
C21_FragmentsInFixedOrder ==
    Succeeded =>
        \A k \in 1..Len(result.pages) :
            LET parts == result.pages[k].html.parts
            IN  /\ parts = NonEmptyFragments(k, Len(DocumentOrder))
                /\ \A name \in {"doctype", "htmlOpen", "head", "bodyOpen",
                                 "mainOpen", "mainClose", "bodyClose", "htmlClose"} :
                       \E i \in 1..Len(parts) : parts[i].name = name
                /\ result.pages[k].bytes + result.pages[k].html.crlfRemoved
                      = SumSeq([i \in 1..Len(parts) |-> parts[i].bytes])
                        + (Len(parts) - 1)

\* a success with several pages, each holding all twelve fragments
C21_Witness ==
    /\ Succeeded
    /\ Len(result.pages) >= 2
    /\ input.navigation > 0
    /\ input.footer > 0
    /\ \A k \in 1..Len(result.pages) :
          Len(result.pages[k].html.parts) = Len(DocumentOrder)

\* the entries of input.posts a feed may show: published posts
Eligible ==
    {i \in 1..Len(input.posts) :
        input.posts[i].status = "published" /\ input.posts[i].pageType = "post"}

\* the bloglist blocks of the input, by position in input.content
BloglistBlocks ==
    {i \in 1..Len(input.content) : input.content[i].type = "bloglist"}

\* the flattened blocks of the content block at position i
Expansion(i) ==
    SelectSeq(flat.contentBlocks, LAMBDA block : block.sourceIndex = i - 1)

\* block.limit === null ? published.length : (block.limit ?? DEFAULT_BLOGLIST_LIMIT)
LimitOf(block) ==
    IF block.limitKind = "null" THEN Cardinality(Eligible)
    ELSE IF block.limitKind = "number" THEN block.limit
    ELSE DEFAULT_BLOGLIST_LIMIT

\* C22: expanding a bloglist block emits exactly one bloglist-item block per
\* surviving post, the surviving posts being the published posts sorted by
\* publish timestamp descending and truncated to the block's limit (all of
\* them for the unlimited sentinel): items are in non-increasing timestamp
\* order, there are min(limit, number of eligible posts) of them, each carries
\* the block's source index, and no unpublished or non-post entry yields one.
C22_OneItemPerSurvivingPost ==
    flat # NoFlat =>
        /\ \A i \in BloglistBlocks :
              LET items == SelectSeq(Expansion(i), IsItem)
                  shown == {items[j].html.post : j \in 1..Len(items)}
              IN  /\ Len(items) = Min(LimitOf(input.content[i]),
                                      Cardinality(Eligible))
                  /\ Cardinality(shown) = Len(items)
                  /\ shown \subseteq Eligible
                  /\ \A j \in 1..Len(items) :
                        /\ items[j].sourceIndex = i - 1
                        /\ items[j].bytes = input.posts[items[j].html.post].bytes
                  /\ \A j, k \in 1..Len(items) :
                        j < k => input.posts[items[j].html.post].publishedAt
                                   >= input.posts[items[k].html.post].publishedAt
                  /\ \A e \in Eligible \ shown : \A j \in shown :
                        input.posts[j].publishedAt >= input.posts[e].publishedAt
        /\ \A j \in 1..Len(flat.contentBlocks) :
              IsItem(flat.contentBlocks[j]) =>
                  flat.contentBlocks[j].sourceIndex + 1 \in BloglistBlocks

\* among drafts and pages, one feed is cut to its limit of two posts and
\* another shows all of several posts
C22_Witness ==
    /\ flat # NoFlat
    /\ Cardinality(Eligible) < Len(input.posts)
    /\ \E i, k \in BloglistBlocks :
          /\ Len(SelectSeq(Expansion(i), IsItem)) = 2
          /\ Cardinality(Eligible) > 2
          /\ Len(SelectSeq(Expansion(k), IsItem)) = Cardinality(Eligible)

IsTrailer(block) == block.html.part \in {"archive-link", "end-of-list"}

\* the expansion ends with exactly one block of the given part, its only
\* trailer
EndsWithOne(expansion, part) ==
    /\ Len(expansion) >= 1
    /\ expansion[Len(expansion)].html.part = part
    /\ Len(SelectSeq(expansion, IsTrailer)) = 1

\* the trailer rule for the expansion of the bloglist block at position i
TrailerRule(i) ==
    LET block == input.content[i]
    IN  /\ IF block.archiveLink > 0
           THEN /\ EndsWithOne(Expansion(i), "archive-link")
                /\ Expansion(i)[Len(Expansion(i))].bytes = block.archiveLink
           ELSE IF block.limitKind = "null"
           THEN EndsWithOne(Expansion(i), "end-of-list")
           ELSE SelectSeq(Expansion(i), IsTrailer) = <<>>
        /\ \A j \in 1..Len(Expansion(i)) :
              IsTrailer(Expansion(i)[j]) => ~IsItem(Expansion(i)[j])

\* C23: a bloglist expansion ends with exactly one archive-link block whenever
\* the block configures an archive link, whatever the number of eligible
\* posts; without an archive link it ends with exactly one end-of-list marker
\* if the limit is the unlimited sentinel, and with no trailer otherwise; the
\* trailer is never tagged bloglist-item.
C23_TrailerForEveryFeed ==
    flat # NoFlat => \A i \in BloglistBlocks : TrailerRule(i)

\* C23 (amended): the trailer rule holds for a feed with at least one eligible
\* post; with no eligible post the expansion is the single empty-state block,
\* untagged, and has no trailer even when an archive link is configured or
\* the limit is the unlimited sentinel.
C23_TrailerForNonEmptyFeed ==
    flat # NoFlat =>
        \A i \in BloglistBlocks :
            IF Eligible # {} THEN TrailerRule(i)
            ELSE /\ Len(Expansion(i)) = 1
                 /\ Expansion(i)[1].html.part = "empty"
                 /\ Expansion(i)[1].blockType = "none"
                 /\ Expansion(i)[1].bytes = EmptyStateBytes

\* a feed of several posts with unlimited limit and an archive link next to
\* one with unlimited limit and none
C23_Witness ==
    /\ flat # NoFlat
    /\ Cardinality(Eligible) >= 2
    /\ \E i, k \in BloglistBlocks :
          /\ input.content[i].limitKind = "null"
          /\ input.content[i].archiveLink > 0
          /\ input.content[k].limitKind = "null"
          /\ input.content[k].archiveLink = 0
          /\ Len(Expansion(i)) = Len(Expansion(k))

\* the generated classes and the names the markup carries for them: each
\* place of the compiler that writes the class, with what it writes
MarkupClasses ==
    {<<name, flat.page.classes[name]>> : name \in FlattenClasses}
    \cup {<<name, paginationResult.classes[name]>> : name \in PaginateClasses}

\* the selector the style sheet must hold for `.name` to keep selecting the
\* elements it selected: the class the markup carries for a generated name,
\* the name itself for any other class, the element for `.section`
RECURSIVE MatchingStyleSheet(_)
MatchingStyleSheet(selectors) ==
    IF selectors = <<>> THEN ""
    ELSE LET name == Head(selectors)
             written == {m[2] : m \in {x \in MarkupClasses : x[1] = name}}
         IN  (IF written = {} THEN "." \o name
              ELSE "." \o (CHOOSE class \in written : TRUE))
             \o "{}" \o MatchingStyleSheet(Tail(selectors))

\* C24: in each class-mangling mode the renaming is one-to-one and applied
\* identically to markup and CSS: every class name the compiler itself emits
\* (layout, cell, pattern classes and, in aggressive mode, post list, post
\* item, pagination, archive link, empty and end-of-list markers) is renamed in
\* the markup exactly when its class selector in the user CSS is renamed, to
\* the same name, and no renamed selector is renamed a second time.
C24_MarkupAndCssRenamedAlike ==
    pc = "emit" =>
        /\ \A m, n \in MarkupClasses : (m[1] = n[1]) = (m[2] = n[2])
        /\ flat.page.css = MatchingStyleSheet(input.selectors)

\* a packing pass has run to its end
PassDone == pass # NoPass /\ pass.error.code = "none"

\* the blocks of the first k pages of the pass
PackedBefore(k) ==
    Flat([i \in 1..k |-> pass.pages[i].contentBlocks])

\* runs of feed items among the blocks: items not preceded by an item
ItemRuns(blocks) ==
    Cardinality({j \in 1..Len(blocks) :
                    IsItem(blocks[j]) /\ (j = 1 \/ ~IsItem(blocks[j - 1]))})

\* byte length of the content of a page: the blocks, one separator between
\* adjacent blocks, one wrapper per run of items
ContentBytes(blocks) ==
    SumSeq(BlockBytes(blocks)) + (Len(blocks) - 1) * NewlineBytes
    + ItemRuns(blocks) * BLOGLIST_WRAPPER_BYTES

\* budget of page k in the pass: limit - fixed overhead - pagination-nav cost
PassBudget(k) ==
    SIZE_LIMIT - calculateFixedOverhead(flat.breakdown)
    - calculatePaginationBytes(input.slug, k, pass.estimate)

\* what page k of the pass would hold with the block that follows it
WithNextBlock(k) ==
    LET blocks == pass.pages[k].contentBlocks
        next == flat.contentBlocks[Len(PackedBefore(k)) + 1]
    IN  ContentBytes(blocks) + NewlineBytes + next.bytes
        + (IF IsItem(next) /\ ~IsItem(blocks[Len(blocks)])
           THEN BLOGLIST_WRAPPER_BYTES ELSE 0)

\* C25: packing is greedy: in every packing pass a page is closed only when
\* the next block would overflow it: for every page but the last, the page's
\* content bytes plus one separator plus the next block's bytes (plus the
\* wrapper cost if that block would start a new run of items on the page)
\* exceed the page's budget of limit - fixed overhead - pagination-nav cost.
C25_PageClosedOnlyOnOverflow ==
    PassDone =>
        \A k \in 1..(Len(pass.pages) - 1) : WithNextBlock(k) > PassBudget(k)

\* a pass closed two pages, one of them before a block that would have
\* opened a new run of items on it
C25_Witness ==
    /\ PassDone
    /\ Len(pass.pages) >= 3
    /\ \E k \in 1..(Len(pass.pages) - 1) :
          LET blocks == pass.pages[k].contentBlocks
          IN  /\ IsItem(pass.pages[k + 1].contentBlocks[1])
              /\ ~IsItem(blocks[Len(blocks)])

\* C27: in every packing pass the running byte total tracked for a page at
\* the moment it is closed equals the exact byte length of the page's
\* assembled content HTML: the sum of its block sizes, one separator byte
\* between adjacent blocks, one wrapper cost per run of items on the page.
C27_TrackedBytesAreContentBytes ==
    PassDone =>
        /\ Len(pass.closedBytes) = Len(pass.pages)
        /\ \A k \in 1..Len(pass.pages) :
              /\ pass.closedBytes[k] = pass.pages[k].breakdown.content
              /\ pass.closedBytes[k] =
                    ContentHtmlBytes(assembleContentHtml(pass.pages[k].contentBlocks))
              /\ pass.closedBytes[k] = ContentBytes(pass.pages[k].contentBlocks)

\* a pass closed a page that holds two runs of items around another block,
\* and a page that starts inside a run
C27_Witness ==
    /\ PassDone
    /\ \E k \in 1..Len(pass.pages) :
          ItemRuns(pass.pages[k].contentBlocks) >= 2
    /\ \E k \in 2..Len(pass.pages) :
          /\ IsItem(pass.pages[k].contentBlocks[1])
          /\ IsItem(pass.pages[k - 1].contentBlocks[
                        Len(pass.pages[k - 1].contentBlocks)])

\* C26: if two CLI compile runs for the same slug interleave (each loads the
\* manifest, checks canPublish, compiles, writes the page files and saves the
\* manifest), no interleaving leaves the slug published twice or loses the
\* manifest entries added by a run that reported success.
C26_NoDoublePublishNoLostEntry ==
    /\ \A i, j \in 1..Len(files) :
          files[i].path = files[j].path => files[i].by = files[j].by
    /\ \A p \in DOMAIN procs :
          (procs[p].at = "exited" /\ procs[p].exitCode = 0) =>
              \A k \in 1..Len(procs[p].result.pages) :
                  \E i \in 1..Len(manifest) :
                      manifest[i] = ManifestEntry(procs[p].result.pages[k],
                                                  procs[p].timestamp,
                                                  procs[p].input.title)

\* estimates a packing pass may be run with: from two pages up to one page
\* per block and two more
Estimates == 2..(Len(flat.contentBlocks) + 2)

\* the packing pass over the flattened blocks for the given estimate
PassFor(estimate) ==
    PackPages(flat.contentBlocks, input.slug,
              calculateFixedOverhead(flat.breakdown), flat.breakdown, estimate)

\* the number of pages is non-decreasing in the estimate, among the passes
\* that pack every block
PageCountMonotone ==
    Apply(LAMBDA passes :
              \A e1, e2 \in Estimates :
                  ( /\ e1 <= e2
                    /\ passes[e1].error.code = "none"
                    /\ passes[e2].error.code = "none" )
                  => Len(passes[e1].pages) <= Len(passes[e2].pages),
          [e \in Estimates |-> PassFor(e)])

\* a pass follows a pass, both packing every block
NextPass ==
    /\ pass.iteration >= 1
    /\ pass'.iteration = pass.iteration + 1
    /\ pass.error.code = "none"
    /\ pass'.error.code = "none"

\* C28: for a fixed input the number of pages a packing pass produces is
\* non-decreasing in the estimated page count used for the pass, so the page
\* counts observed over successive iterations of the fixed-point loop form a
\* monotone sequence and never oscillate: once a count is above (below) the
\* count before it, no later count is below (above) its predecessor.
C28_PageCountsMonotone ==
    /\ [](Packing => PageCountMonotone)
    /\ [][ NextPass =>
              /\ pass'.estimate = Len(pass.pages)
              /\ (pass.iteration >= 2 /\ Len(pass.pages) > pass.estimate)
                    => Len(pass'.pages) >= Len(pass.pages)
              /\ (pass.iteration >= 2 /\ Len(pass.pages) < pass.estimate)
                    => Len(pass'.pages) <= Len(pass.pages) ]_vars

\* a third pass has run after two passes with different page counts
C28_Witness ==
    /\ PassDone
    /\ pass.iteration >= 3

\* paginate has returned several pages
SeveralPages ==
    /\ paginationResult.success
    /\ Len(paginationResult.pages) >= 2

\* bytes the packing loop left for the content of page k of the last pass
BudgetedContent(k) ==
    SIZE_LIMIT - calculateFixedOverhead(flat.breakdown)
    - calculatePaginationBytes(input.slug, pass.pages[k].pageNumber, pass.estimate)

\* C29: when paginate returns several pages, the estimate of the last packing
\* pass equals the number of pages returned; the pagination fragment the
\* fix-up writes to each page has the byte length budgeted for that page
\* during packing (and the length measured before the fix-up), and every
\* returned page is within its budget and within SIZE_LIMIT.
C29_FixUpKeepsBudgetedLength ==
    SeveralPages =>
        /\ pass.estimate = Len(paginationResult.pages)
        /\ Len(pass.pages) = Len(paginationResult.pages)
        /\ \A k \in 1..Len(paginationResult.pages) :
              LET page == paginationResult.pages[k]
                  budgeted == calculatePaginationBytes(input.slug, page.pageNumber,
                                                       pass.estimate)
              IN  /\ page.pageNumber = pass.pages[k].pageNumber
                  /\ NavHtmlBytes(page.paginationHtml) = budgeted
                  /\ page.breakdown.pagination = budgeted
                  /\ page.breakdown.pagination = pass.pages[k].breakdown.pagination
                  /\ page.breakdown.content = pass.pages[k].breakdown.content
                  /\ page.breakdown.content <= BudgetedContent(k)
                  /\ totalFromBreakdown(page.breakdown) <= SIZE_LIMIT

\* several pages were returned after the estimate had changed twice
C29_Witness ==
    /\ SeveralPages
    /\ pass.iteration >= 3
    /\ Len(paginationResult.pages) > 2

\* number of occurrences of the character c among the first n of the string s
CountChar(s, c, n) == Cardinality({j \in 1..n : SubSeq(s, j, j) = c})

\* lengths of the prefixes of s that hold more closing than opening braces
Overclosed(s) ==
    {n \in 1..Len(s) : CountChar(s, "}", n) > CountChar(s, "{", n)}

\* zero-based index of the first closing brace without an opening one
FirstUnmatched(s) ==
    (CHOOSE n \in Overclosed(s) : \A m \in Overclosed(s) : n <= m) - 1

\* C30: validateCss accepts a rule string exactly when no prefix of it holds
\* more closing than opening braces and the whole string holds equally many
\* of both; otherwise it returns CSS_PARSE_ERROR, with the index of the first
\* unmatched closing brace as its offset if there is one, and with the length
\* of the string if only opening braces remain unclosed.
C30_ValidateCssBraceBalance ==
    pc = "validated" =>
        LET s == input.cssRules
            balanced == /\ Overclosed(s) = {}
                        /\ CountChar(s, "{", Len(s)) = CountChar(s, "}", Len(s))
        IN  /\ result.valid <=> balanced
            /\ ~result.valid =>
                  /\ result.error.code = "CSS_PARSE_ERROR"
                  /\ result.error.offset =
                        IF Overclosed(s) # {} THEN FirstUnmatched(s) ELSE Len(s)
                  /\ Overclosed(s) # {} =>
                        SubSeq(s, result.error.offset + 1,
                               result.error.offset + 1) = "}"

\* a closing brace that follows a matched pair was rejected at its index,
\* before the end of the string
C30_Witness ==
    /\ pc = "validated"
    /\ ~result.valid
    /\ Len(input.cssRules) > 3
    /\ SubSeq(input.cssRules, 1, 2) = "{}"
    /\ result.error.offset = 2
    /\ result.error.offset < Len(input.cssRules) - 1

====
